---------------------------- MODULE Spec2Model ----------------------------
(***************************************************************************)
(* State-machine model of the canvas games of this repository:             *)
(*   variant "surf" : src/game.js       (Surf Racer, LUT-driven build)     *)
(*   variant "docs" : src/docs/game.js  (Surf Racer, plain build)          *)
(*   variant "hill" : src/README.md     (Racing Penguin: Slide & Fly)      *)
(*   variant "drop" : src/js/game.js    (Tidal Drop)                       *)
(*                                                                         *)
(* Numbers.  The programs compute with IEEE doubles; the model computes    *)
(* with integers in fixed point: lengths in 1/1000 px, speeds in 1/1000    *)
(* px/s, angles in 1/1000 rad, times in ms.  Every product is followed by  *)
(* the floor division that brings it back to that scale.  Math.sin is the  *)
(* rational approximation 16q/(5 pi^2 - 4q), q = x(pi - x), whose sign     *)
(* and zeros on the half period agree with the sine's.                     *)
(***************************************************************************)
EXTENDS Integers, Sequences, FiniteSets, Bags, TLC

VARIABLES
  variant,            \* which of the four programs this behaviour runs
  page,               \* "live", or "hung": the script is inside a loop that never exits
  state,              \* state / gameState: "menu", "playing", "game_over" | "gameover"
  world,              \* surf: [speed]
  surfer,             \* surf: [worldX, y, vy, grounded]; drop: [x, y, vx]
  penguin,            \* hill: [x, y, vx, vy, onGround, combo, boosts]
  terrain,            \* hill: [segments, seed]
  obstacles,          \* surf: seq of [worldX, width, height]; drop: seq of [x, y, radius]
  nextObstacleWorldX, \* surf: spawn frontier
  timers,             \* drop: [spawnTimer, spawnInterval, difficultyTimer]
  cameraX,            \* surf: cameraX; hill: camera.x
  distance,           \* distance travelled in the run (all variants)
  score,              \* surf: score; hill: penguin.scoreDistance; drop: scoreInt
  bestScore,          \* in-memory best score (all variants)
  storage,            \* localStorage value under the best-score key; -1 = absent
  leaderboard,        \* localStorage value under the scores key
  input,              \* hill: [held]; drop: [left, right, pointerDirection]
  viewport,           \* hill, drop: [width, height] (window.innerWidth/innerHeight)
  clock,              \* frame loop: lastTime, elapsedTime, frameCount, engineFilter, accumulator
  trace,              \* history: what the last operation did
  hist                \* history: what the behaviour did so far

vars == << variant, page, state, world, surfer, penguin, terrain, obstacles,
           nextObstacleWorldX, timers, cameraX, distance, score, bestScore, storage,
           leaderboard, input, viewport, clock, trace, hist >>

\* the variables only the hill-glide program uses, only Tidal Drop uses, only surf uses
hillOnly == << penguin, terrain >>

dropOnly == << timers >>

surfOnly == << world, nextObstacleWorldX >>

\* the scores key was never written
NoBoard == [kind |-> "absent", entries |-> << >>]

-----------------------------------------------------------------------------
(* Fixed-point helpers                                                     *)

Abs(x) == IF x < 0 THEN -x ELSE x

Min(a, b) == IF a < b THEN a ELSE b

Max(a, b) == IF a > b THEN a ELSE b

\* a * b / c (floor), with the product split so that it stays inside 32 bits
\* for |a| < 2^31, 0 <= b, 0 < c and c * b < 2^31.
MulDiv(a, b, c) == (a \div c) * b + ((a % c) * b) \div c

\* x * dt for a dt in milliseconds: floor(x * dtMs / 1000)
TimesDt(x, dtMs) == MulDiv(x, dtMs, 1000)

\* F applied to the value of v: v is evaluated once, however often F uses it
Strict(v, F(_)) == CHOOSE r \in { F(x) : x \in {v} } : TRUE

\* JavaScript's % (the remainder has the sign of the dividend)
JsRem(a, n) == IF a >= 0 THEN a % n ELSE -((-a) % n)

PiM == 3142

TwoPiM == 6283

\* sin on [0, pi], argument in mrad, result in 1/1000
SinHalf(x) ==
  LET q == (x * (PiM - x)) \div 1000
  IN  (16000 * q) \div (49348 - 4 * q)

\* Math.sin, argument in mrad (any integer), result in 1/1000
SinM(a) ==
  LET r == a % TwoPiM
  IN  IF r <= PiM THEN SinHalf(r) ELSE -SinHalf(Min(r - PiM, PiM))

\* Math.cos
CosM(a) == SinM(a + 1571)

-----------------------------------------------------------------------------
(* Bounds of the model                                                     *)

\* frames (requestAnimationFrame callbacks) per behaviour
MaxFrames == 3

\* runs (start actions) per behaviour
MaxRuns == 2

\* Wall-clock gaps between two frame callbacks, in ms: a 60 Hz frame, a slow
\* frame, and a tab that was in the background.
Gaps == {20, 1000, 5000}

\* Math.random(), in 1/1000: the two ends of [0, 1)
Rands == {0, 999}

\* localStorage at page load: the stored best score (-1: the key is absent)
StoredBest == {-1, 40}

-----------------------------------------------------------------------------
(* Surf Racer: src/game.js ("surf") and src/docs/game.js ("docs")          *)

IsSurf == variant \in {"surf", "docs"}

\* the <canvas> element's size (it is set by the page, not by the script)
CanvasWidth == 960000

CanvasHeight == 540000

baseSpeed == IF variant = "docs" THEN 180000 ELSE 170000

minSpeed == IF variant = "docs" THEN 140000 ELSE 130000

maxSpeed == 520000

accel == 40000

waveBaseY == (CanvasHeight * 72) \div 100

waveAmp == IF variant = "docs" THEN 55000 ELSE 68000

\* wave.freq, in mrad per px
waveFreq == IF variant = "docs" THEN 12 ELSE 11

surferScreenX == CanvasWidth \div 4

surferWidth == IF variant = "docs" THEN 52000 ELSE 58000

surferHeight == IF variant = "docs" THEN 42000 ELSE 54000

gravity == 900000

jumpVelocity == -520000

slopeBoost == 60

\* the fallback tables of src/game.js (oceanDetailLUT and engineDriftLUT are
\* not defined anywhere in the repository), values in 1/1000
detailLUT == << [ripple |-> 0, crest |-> 700] >>

driftLUT == << [drag |-> 0, lift |-> 0, glide |-> 1000, smooth |-> 620],
               [drag |-> 200, lift |-> -100, glide |-> 1080, smooth |-> 700] >>

\* the clamp without its upper half
ClampSpeedFloorOnly(v) == IF v < minSpeed THEN minSpeed ELSE v

\* if (world.speed < world.minSpeed) ...; if (world.speed > world.maxSpeed) ...
ClampSpeed(v) == IF v < minSpeed THEN minSpeed ELSE IF v > maxSpeed THEN maxSpeed ELSE v

\* getWaveY(worldX) at frame fc and elapsed time et (ms); worldX in 1/1000 px
\* the index (frameCount + Math.floor(worldX)) % detailLUT.length of getWaveY
\* for a table of len entries, worldX in 1/1000 px
DetailIndex(fc, worldX, len) == JsRem(fc + (worldX \div 1000), len)

getWaveY(worldX, fc, et) ==
  LET n == (worldX * waveFreq) \div 1000
  IN  IF variant = "docs"
      THEN waveBaseY + (SinM(n) * waveAmp) \div 1000
                     + (SinM(n \div 2 + 12300) * ((waveAmp * 4) \div 10)) \div 1000
      ELSE LET detail == detailLUT[DetailIndex(fc, worldX, Len(detailLUT)) + 1]
               swell == (SinM((et * 18) \div 100) * (18000 + detail.crest * 4)) \div 1000
               amplitude == waveAmp + swell + detail.ripple * 6
           IN  waveBaseY + (SinM(n) * amplitude) \div 1000
                         + (SinM(n \div 2 + 12300) * ((amplitude * 42) \div 100)) \div 1000
                         + (SinM((n * 16) \div 10 + 4200) * ((detail.crest * 32) \div 10)) \div 1000

\* getWaveSlope(worldX): symmetric difference over delta = 2 px, in 1/1000
getWaveSlope(worldX, fc, et) ==
  LET delta == 2000
      y1 == getWaveY(worldX - delta, fc, et)
      y2 == getWaveY(worldX + delta, fc, et)
  IN  ((y2 - y1) * 1000) \div (2 * delta)

\* the y a grounded surfer is pinned to
SurfGroundY(worldX, fc, et) == getWaveY(worldX, fc, et) - surferHeight \div 2 - 8000

\* the slope term of a grounded tick: -slope * physics.slopeBoost * dt
SlopeTerm(slope, dt) == TimesDt(-slope * slopeBoost, dt)

\* the slope term of a landing tick: -slope * physics.slopeBoost * 1.5 * dt
LandingTerm(slope, dt) == TimesDt((-slope * slopeBoost * 15) \div 10, dt)

spacingMin == IF variant = "docs" THEN 420000 ELSE 620000

spacingMax == IF variant = "docs" THEN 880000 ELSE 1180000

obstacleWidth == IF variant = "docs" THEN 40000 ELSE 44000

obstacleHeight == IF variant = "docs" THEN 64000 ELSE 56000

\* a spawner whose spacing is twice the random part
spawnObstacleWide(st, r) ==
  LET spacing == spacingMin + ((spacingMax - spacingMin) \div 1000) * r * 2
  IN  [obs  |-> Append(st.obs, [worldX |-> st.next, width |-> obstacleWidth,
                                height |-> obstacleHeight]),
       next |-> st.next + spacing]

\* spawnObstacle() with Math.random() = r/1000: the list and frontier after it
spawnObstacle(st, r) ==
  LET spacing == spacingMin + ((spacingMax - spacingMin) \div 1000) * r
  IN  [obs  |-> Append(st.obs, [worldX |-> st.next, width |-> obstacleWidth,
                                height |-> obstacleHeight]),
       next |-> st.next + spacing]

\* k calls of spawnObstacle, every outcome of the random spacings
RECURSIVE SpawnTimes(_, _)
SpawnTimes(st, k) ==
  IF k = 0 THEN {st}
  ELSE UNION { SpawnTimes(spawnObstacle(st, r), k - 1) : r \in Rands }

\* while (nextObstacleWorldX < surfer.worldX + 1600) spawnObstacle();
RECURSIVE SpawnAhead(_, _)
SpawnAhead(st, worldX) ==
  IF st.next < worldX + 1600000
  THEN UNION { SpawnAhead(spawnObstacle(st, r), worldX) : r \in Rands }
  ELSE {st}

\* a filter that keeps every obstacle
RecycleNone(obs, camX) == obs

\* obstacles.filter((o) => o.worldX + o.width > minWorldX)
Recycle(obs, camX) ==
  LET minWorldX == camX - 200000
  IN  SelectSeq(obs, LAMBDA o : o.worldX + o.width > minWorldX)

\* the collision test with boxes that merely touch counted as colliding
SurfHitsTouching(o, y, camX, fc, et) ==
  LET sx == surferScreenX - surferWidth \div 2
      sy == y - surferHeight \div 2
      sw == surferWidth
      sh == surferHeight
      screenX == o.worldX - camX
      ow == IF variant = "docs" THEN o.width ELSE (o.width * 9) \div 10
      oh == IF variant = "docs" THEN o.height ELSE (o.height * 9) \div 10
      oy == getWaveY(o.worldX, fc, et) - oh
      ox == IF variant = "docs" THEN screenX ELSE screenX + (o.width - ow) \div 2
  IN  /\ sx <= ox + ow
      /\ sx + sw >= ox
      /\ sy <= oy + oh
      /\ sy + sh >= oy

\* the collision test of checkCollisions for one obstacle
SurfHits(o, y, camX, fc, et) ==
  LET sx == surferScreenX - surferWidth \div 2
      sy == y - surferHeight \div 2
      sw == surferWidth
      sh == surferHeight
      screenX == o.worldX - camX
      ow == IF variant = "docs" THEN o.width ELSE (o.width * 9) \div 10
      oh == IF variant = "docs" THEN o.height ELSE (o.height * 9) \div 10
      oy == getWaveY(o.worldX, fc, et) - oh
      ox == IF variant = "docs" THEN screenX ELSE screenX + (o.width - ow) \div 2
  IN  /\ sx < ox + ow
      /\ sx + sw > ox
      /\ sy < oy + oh
      /\ sy + sh > oy

\* checkCollisions(): does some live obstacle end the run
checkCollisions(obs, y, camX, fc, et) ==
  \E i \in 1..Len(obs) : SurfHits(obs[i], y, camX, fc, et)

\* the number of obstacles the loop of checkCollisions tests: up to and
\* including the first one that collides ("gameOver(); break;")
Tested(obs, y, camX, fc, et) ==
  LET hits == { i \in 1..Len(obs) : SurfHits(obs[i], y, camX, fc, et) }
  IN  IF hits = {} THEN Len(obs) ELSE CHOOSE i \in hits : \A j \in hits : i <= j

\* timestamp of the first frame callback, ms after navigation start
FirstStamp == 100

\* the trace of an operation that is not a simulation tick
NoTick(op) == [op |-> op, dt |-> 0, steps |-> 0, calls |-> 0, airborne |-> FALSE, landed |-> FALSE,
               slope |-> 0, rise |-> 0, slopeTerm |-> 0, prevScore |-> 0,
               prevBest |-> bestScore, ensured |-> FALSE, camX |-> 0,
               impact |-> 0, vxIn |-> 0, comboIn |-> 0, ended |-> FALSE,
               tested |-> 0]

\* gameOver(): the best score in memory and in localStorage after it
gameOver(sc) ==
  /\ state' = "game_over"
  /\ IF sc > bestScore
     THEN bestScore' = sc /\ storage' = sc
     ELSE UNCHANGED << bestScore, storage >>

\* a camera that sits on the rider
CameraAtRider(worldX) == worldX

\* cameraX = surfer.worldX - surfer.screenX
CameraFor(worldX) == worldX - surferScreenX

\* resetGame() then state = PLAYING
startGame ==
  /\ \E st \in SpawnTimes([obs |-> << >>, next |-> 0 + 700000], 4) :
       /\ obstacles' = st.obs
       /\ nextObstacleWorldX' = st.next
  /\ world' = [speed |-> baseSpeed]
  /\ surfer' = [worldX |-> 0,
                y |-> SurfGroundY(0, clock.frameCount, clock.elapsedTime),
                vy |-> 0, grounded |-> TRUE]
  /\ distance' = 0
  /\ score' = 0
  /\ cameraX' = CameraFor(0)
  /\ state' = "playing"
  /\ trace' = [NoTick("startGame") EXCEPT !.prevScore = score]
  /\ UNCHANGED << bestScore, storage >>

\* a rider that may jump from the air
CanJumpAlways(s) == TRUE

\* if (surfer.grounded) in the PLAYING branch of primaryAction()
CanJump(s) == s.grounded

\* a primary action that starts a run in any state
StartsInAnyState(st) == TRUE

\* the states in which primaryAction() calls startGame(): MENU and GAME_OVER
StartsRun(st) == st \in {"menu", "game_over"}

\* primaryAction(): start from the menu or after a wipeout, jump while playing
SurfPrimaryAction ==
  /\ IsSurf
  /\ IF StartsRun(state)
     THEN /\ hist.runs < MaxRuns
          /\ hist' = [hist EXCEPT !.runs = @ + 1]
          /\ startGame
          /\ UNCHANGED << variant, page, hillOnly, dropOnly, input, viewport, clock >>
     ELSE /\ IF CanJump(surfer)
             THEN /\ surfer' = [surfer EXCEPT !.grounded = FALSE, !.vy = jumpVelocity]
                  /\ trace' = [NoTick("jump") EXCEPT !.prevScore = score]
             ELSE /\ surfer' = surfer
                  /\ trace' = [NoTick("no jump") EXCEPT !.prevScore = score]
          /\ UNCHANGED << state, world, obstacles, nextObstacleWorldX, cameraX,
                          distance, score, bestScore, storage, clock >>
          /\ UNCHANGED << variant, page, hillOnly, dropOnly, input, viewport, hist >>
  /\ UNCHANGED leaderboard

\* the physics of update(dt) (speed tweak, advance, ground / air branch,
\* distance and score) from the current state, with drift the entry of the
\* drift table the tick reads
\* distance advanced with the speed that moved the rider
TravelSpeed(moved, final) == moved

\* the speed in "distance += world.speed * dt": world.speed as the slope or
\* landing term left it, not the speed that moved the rider (moved)
DistanceSpeed(moved, final) == final

SurfTick(drift, dt, fc, et) ==
  LET smoothingBoost == 1000 - (drift.smooth * 120) \div 1000
      tweak == IF variant = "docs"
               THEN TimesDt(accel, dt)
               ELSE (((TimesDt(accel, dt) * drift.glide) \div 1000) * smoothingBoost) \div 1000
                    + TimesDt((drift.drag * 250) \div 1000, dt)
      speed1 == ClampSpeed(world.speed + tweak)
      worldX1 == surfer.worldX + TimesDt(speed1, dt)
      groundY == SurfGroundY(worldX1, fc, et)
      slope == getWaveSlope(worldX1, fc, et)
      lift == IF variant = "docs" THEN 0 ELSE (drift.lift * 6000) \div 1000
      vy1 == surfer.vy + TimesDt(gravity + lift, dt)
      y1 == surfer.y + TimesDt(vy1, dt)
      landing == (~surfer.grounded) /\ y1 >= groundY /\ vy1 > 0
      term == IF surfer.grounded THEN SlopeTerm(slope, dt)
              ELSE IF landing THEN LandingTerm(slope, dt) ELSE 0
      speed2 == IF surfer.grounded \/ landing THEN ClampSpeed(speed1 + term) ELSE speed1
      dist == distance + TimesDt(DistanceSpeed(speed1, speed2), dt)
  IN  [speed |-> speed2, worldX |-> worldX1,
       y |-> IF surfer.grounded \/ landing THEN groundY ELSE y1,
       vy |-> IF surfer.grounded \/ landing THEN 0 ELSE vy1,
       grounded |-> surfer.grounded \/ landing,
       dist |-> dist, score |-> dist \div 10000,
       landing |-> landing, slope |-> slope, term |-> term,
       vyIn |-> vy1, yIn |-> y1, groundY |-> groundY]

\* update(dt) of the surf variants while PLAYING, at frame fc and elapsed time et
SurfUpdate(dt, fc, et) ==
  \E t \in { SurfTick(driftLUT[(fc % Len(driftLUT)) + 1], dt, fc, et) } :
  \E camX \in { CameraFor(t.worldX) } :
      /\ world' = [speed |-> t.speed]
      /\ surfer' = [worldX |-> t.worldX, y |-> t.y, vy |-> t.vy, grounded |-> t.grounded]
      /\ cameraX' = camX
      /\ distance' = t.dist
      /\ score' = t.score
      /\ \E st \in SpawnAhead([obs |-> obstacles, next |-> nextObstacleWorldX], t.worldX) :
           /\ obstacles' = Recycle(st.obs, camX)
           /\ nextObstacleWorldX' = st.next
           /\ IF checkCollisions(Recycle(st.obs, camX), t.y, camX, fc, et)
              THEN gameOver(t.score)
              ELSE UNCHANGED << state, bestScore, storage >>
      /\ trace' = [NoTick("update") EXCEPT !.dt = dt, !.airborne = ~surfer.grounded,
                                           !.landed = t.landing, !.slope = t.slope,
                                           !.slopeTerm = t.term, !.prevScore = score]

\* frame callbacks outside a run that are followed beyond MaxFrames
MaxIdleFrames == 1

\* loop(timestamp) of the surf variants, gap ms after the previous callback
SurfLoop(gap) ==
  /\ IsSurf
  /\ clock.frameCount < MaxFrames + (IF state = "playing" THEN 0 ELSE MaxIdleFrames)
  /\ LET dt == IF clock.lastTime = 0 THEN 0 ELSE gap
         timestamp == IF clock.lastTime = 0 THEN FirstStamp ELSE clock.lastTime + gap
         \* engineFilter.smooth(dt), before the 120-entry buffer wraps
         sum == clock.sum + dt
         index == clock.index + 1
         smoothDt == IF variant = "docs" THEN dt ELSE sum \div index
         et == IF variant = "docs" THEN 0 ELSE clock.elapsedTime + smoothDt
         fc == clock.frameCount + 1
     IN  /\ clock' = [clock EXCEPT !.lastTime = timestamp, !.elapsedTime = et,
                                   !.frameCount = fc, !.sum = sum, !.index = index]
         /\ IF state = "playing"
            THEN SurfUpdate(smoothDt, fc, et)
            ELSE /\ trace' = [NoTick("idle") EXCEPT !.prevScore = score]
                 /\ UNCHANGED << state, world, surfer, obstacles, nextObstacleWorldX,
                                 cameraX, distance, score, bestScore, storage >>
  /\ UNCHANGED << variant, page, hillOnly, dropOnly, input, viewport, hist >>
  /\ UNCHANGED leaderboard

\* the page after the script has run, before any frame or input
SurfInit ==
  /\ variant \in {"surf", "docs"}
  /\ page = "live"
  /\ state = "menu"
  /\ penguin = [x |-> 0]
  /\ terrain = [segments |-> << >>]
  /\ timers = [spawnTimer |-> 0]
  /\ input = [held |-> FALSE]
  /\ viewport = [width |-> CanvasWidth, height |-> CanvasHeight]
  /\ hist = [runs |-> 0]
  /\ world = [speed |-> 0]
  /\ surfer = [worldX |-> 0, y |-> waveBaseY - 60000, vy |-> 0, grounded |-> TRUE]
  /\ obstacles = << >>
  /\ nextObstacleWorldX = 800000
  /\ cameraX = 0
  /\ distance = 0
  /\ score = 0
  /\ \E stored \in StoredBest :
       /\ storage = stored
       /\ bestScore = IF stored < 0 THEN 0 ELSE stored
  /\ clock = [lastTime |-> 0, elapsedTime |-> 0, frameCount |-> 0, sum |-> 0,
              index |-> 0, accumulator |-> 0]
  /\ trace = NoTick("load")
  /\ leaderboard = NoBoard

SurfNext ==
  \/ SurfPrimaryAction
  \/ \E gap \in Gaps : SurfLoop(gap)

SpecSurf == SurfInit /\ [][SurfNext]_vars

\* C1: in both surf variants, once startGame has run, world.speed is never
\* below world.minSpeed and never above world.maxSpeed, whatever the frame
\* times, the wave slope and the jumps were.
C1_SpeedWithinBounds ==
  (IsSurf /\ hist.runs > 0) => (minSpeed <= world.speed /\ world.speed <= maxSpeed)

\* a simulation tick of a started run that ends with the speed held at the cap
C1_Witness ==
  /\ IsSurf /\ hist.runs > 0
  /\ trace.op = "update" /\ trace.dt > 0
  /\ world.speed = maxSpeed

\* C4: in a grounded tick and in a landing tick of the surf variants the slope
\* term added to world.speed is >= 0 when getWaveSlope is positive (the wave
\* descends ahead) and <= 0 when it is negative.
C4_DownslopeAddsSpeed ==
  (IsSurf /\ trace.op = "update" /\ (~trace.airborne \/ trace.landed))
    => /\ (trace.slope > 0 => trace.slopeTerm >= 0)
       /\ (trace.slope < 0 => trace.slopeTerm <= 0)

-----------------------------------------------------------------------------
(* The leaderboard: src/js/game.js and src/README.md                       *)

\* loadScores(): the parsed array, or [] when the key is absent, is not JSON
\* or is JSON of another kind
loadScores(stored) == IF stored.kind = "array" THEN stored.entries ELSE << >>

\* saveScores(scores): the value the key holds after it
saveScores(scores) == [kind |-> "array", entries |-> scores]

\* one step of the stable sort with comparator (a, b) => b.score - a.score:
\* x goes behind every entry whose score is not smaller
RECURSIVE InsertByScore(_, _)
InsertByScore(x, sorted) ==
  IF Len(sorted) = 0 THEN << x >>
  ELSE IF Head(sorted).score >= x.score
       THEN << Head(sorted) >> \o InsertByScore(x, Tail(sorted))
       ELSE << x >> \o sorted

\* scores.sort((a, b) => b.score - a.score) (Array.prototype.sort is stable)
RECURSIVE SortByScore(_)
SortByScore(scores) ==
  IF Len(scores) = 0 THEN << >>
  ELSE InsertByScore(scores[Len(scores)], SortByScore(SubSeq(scores, 1, Len(scores) - 1)))

\* the trimming step without the cap
SliceAll(scores) == scores

\* scores.slice(0, 10)
SliceTen(scores) == SubSeq(scores, 1, Min(10, Len(scores)))

\* addScore(name, score) at time ts: the value of the scores key after it
addScore(name, sc, ts) ==
  saveScores(SliceTen(SortByScore(
    Append(loadScores(leaderboard), [name |-> name, score |-> sc, ts |-> ts]))))

-----------------------------------------------------------------------------
(* Tidal Drop (vertical drop): src/js/game.js                              *)

\* simulation ticks per behaviour of the vertical-drop variant (the first
\* obstacle appears after about 27 clamped frames)
MaxDropFrames == 36

\* simulation ticks of a behaviour whose frame is shorter than the dt clamp
MaxShortFrames == 1

\* input events other than starting a run (key or pointer down/up, resize)
\* per behaviour
MaxInputs == 1

\* clicks on the save button per behaviour
MaxSaves == 2

\* window.innerWidth x window.innerHeight at page load, in 1/1000 px
Viewports == { [width |-> 120000, height |-> 40000] }

\* Math.random() for the obstacle type, in 1/1000: one value per type
TypeRands == {0, 500, 999}

SURFER_SPEED == 320000

surferRadius == 18000

\* the dt clamp of loop(), in ms
DropMaxDt == 30

\* difficultyFactor = 1 + difficultyTimer * 0.08, in 1/1000
difficultyFactor(t) == 1000 + (t * 8) \div 100

\* scrollSpeed = 170 * difficultyFactor
scrollSpeed(t) == 170 * difficultyFactor(t)

\* spawnInterval / difficultyFactor without the minimum
unclampedInterval(interval, t) == (interval * 1000) \div difficultyFactor(t)

\* Math.max(minInterval, spawnInterval / difficultyFactor), in ms
effectiveInterval(interval, t) == Max(350, (interval * 1000) \div difficultyFactor(t))

\* spawnObstacle() with the three Math.random() draws rx, rt, rr (1/1000)
DropSpawn(rx, rt, rr) ==
  LET laneMargin == 40000
      idx == (rt * 3) \div 1000
      type == << "rock", "buoy", "mine" >>[idx + 1]
      radius == IF type = "rock" THEN 24000 + rr * 10
                ELSE IF type = "buoy" THEN 16000 + rr * 6
                ELSE 20000 + rr * 4
  IN  [x |-> laneMargin + ((viewport.width - laneMargin * 2) \div 1000) * rx,
       y |-> viewport.height + 40000, radius |-> radius, type |-> type]

\* the circle test with touching circles counted as a collision
CircleTouch(o, sx, sy) ==
  LET dx == (o.x - sx) \div 100
      dy == (o.y - sy) \div 100
      rSum == (o.radius + surferRadius) \div 100
  IN  dx * dx + dy * dy <= rSum * rSum

\* dx * dx + dy * dy < rSum * rSum, computed in 1/10 px
CircleHit(o, sx, sy) ==
  LET dx == (o.x - sx) \div 100
      dy == (o.y - sy) \div 100
      rSum == (o.radius + surferRadius) \div 100
  IN  dx * dx + dy * dy < rSum * rSum

\* the loop "for (i ...) { o.y -= ...; if (hit) { gameOver(); break; } ... }"
\* followed by the splice of toRemove: the list after it and whether it hit
RECURSIVE MoveObstacles(_, _, _, _, _)
MoveObstacles(obs, i, step, sx, sy) ==
  IF i > Len(obs) THEN [obs |-> << >>, hit |-> FALSE]
  ELSE LET o == [obs[i] EXCEPT !.y = @ - step]
       IN  IF CircleHit(o, sx, sy)
           THEN [obs |-> << o >> \o SubSeq(obs, i + 1, Len(obs)), hit |-> TRUE]
           ELSE LET rest == MoveObstacles(obs, i + 1, step, sx, sy)
                IN  [obs |-> IF o.y + o.radius < -40000 THEN rest.obs
                             ELSE << o >> \o rest.obs,
                     hit |-> rest.hit]

\* saveBestScore(score)
saveBestScore(sc) ==
  IF sc > bestScore
  THEN bestScore' = sc /\ storage' = sc
  ELSE UNCHANGED << bestScore, storage >>

\* the variables no operation of the vertical-drop variant touches
dropFrame == << variant, page, world, penguin, terrain, nextObstacleWorldX, cameraX >>

\* the distance step with the sign of the obstacles' movement (y decreases)
DropDistanceBackward(t, dt) == -MulDiv(scrollSpeed(t), dt, 10000)

\* the distance added by one tick: scrollSpeed * dt * 0.1
DropDistanceStep(t, dt) == MulDiv(scrollSpeed(t), dt, 10000)

\* resetGameValues() then gameState = "playing"
DropStartGame ==
  /\ surfer' = [x |-> viewport.width \div 2, y |-> viewport.height \div 5, vx |-> 0]
  /\ obstacles' = << >>
  /\ timers' = [spawnTimer |-> 0, spawnInterval |-> 850, difficultyTimer |-> 0]
  /\ distance' = 0
  /\ state' = "playing"

\* the start button, and Space in handleKeyDown
DropStart ==
  /\ variant = "drop"
  /\ state # "playing"
  /\ hist.runs < MaxRuns
  /\ DropStartGame
  /\ input' = [input EXCEPT !.pointerDirection = 0]
  /\ hist' = [hist EXCEPT !.runs = @ + 1]
  /\ trace' = NoTick("startGame")
  /\ UNCHANGED << score, bestScore, storage, clock >>
  /\ UNCHANGED dropFrame
  /\ UNCHANGED viewport
  /\ UNCHANGED leaderboard

\* handleKeyDown / handleKeyUp for a steering key
DropKey(side, down) ==
  /\ variant = "drop"
  /\ hist.inputs < MaxInputs
  /\ (IF side = "left" THEN input.left ELSE input.right) # down
  /\ input' = IF side = "left" THEN [input EXCEPT !.left = down]
              ELSE [input EXCEPT !.right = down]
  /\ hist' = [hist EXCEPT !.inputs = @ + 1]
  /\ trace' = NoTick("key")
  /\ UNCHANGED << state, surfer, obstacles, timers, distance, score, bestScore,
                  storage, clock >>
  /\ UNCHANGED dropFrame
  /\ UNCHANGED viewport
  /\ UNCHANGED leaderboard

\* pointerDown(ev) on the left (dir = -1) or right (dir = 1) half of the canvas
pointerDown(dir) ==
  /\ variant = "drop"
  /\ hist.inputs < MaxInputs
  /\ IF state # "playing"
     THEN /\ hist.runs < MaxRuns
          /\ DropStartGame
          /\ hist' = [hist EXCEPT !.runs = @ + 1, !.inputs = @ + 1]
     ELSE /\ hist' = [hist EXCEPT !.inputs = @ + 1]
          /\ UNCHANGED << state, surfer, obstacles, timers, distance >>
  /\ input' = [input EXCEPT !.pointerDirection = dir]
  /\ trace' = NoTick("pointerDown")
  /\ UNCHANGED << score, bestScore, storage, clock >>
  /\ UNCHANGED dropFrame
  /\ UNCHANGED viewport
  /\ UNCHANGED leaderboard

\* pointerUp()
pointerUp ==
  /\ variant = "drop"
  /\ hist.inputs < MaxInputs
  /\ input' = [input EXCEPT !.pointerDirection = 0]
  /\ hist' = [hist EXCEPT !.inputs = @ + 1]
  /\ trace' = NoTick("pointerUp")
  /\ UNCHANGED << state, surfer, obstacles, timers, distance, score, bestScore,
                  storage, clock >>
  /\ UNCHANGED dropFrame
  /\ UNCHANGED viewport
  /\ UNCHANGED leaderboard

\* the left margin only
ConstrainLeft(x, width) == IF x < 30000 THEN 30000 ELSE x

\* "Constrain surfer horizontally": the two ifs on margin = 30, in order
Constrain(x, width) ==
  LET margin == 30000
      x1 == IF x < margin THEN margin ELSE x
  IN  IF x1 > width - margin THEN width - margin ELSE x1

\* window.innerWidth after a resize, in 1/1000 px
ResizedWidths == {50000, 80000}

\* resizeCanvas() on a resize event that leaves the window w wide
resizeCanvas(w) ==
  /\ variant = "drop"
  /\ hist.inputs < MaxInputs
  /\ w # viewport.width
  /\ viewport' = [viewport EXCEPT !.width = w]
  /\ hist' = [hist EXCEPT !.inputs = @ + 1]
  /\ trace' = NoTick("resize")
  /\ UNCHANGED << variant, page, state, world, surfer, penguin, terrain, obstacles,
                  nextObstacleWorldX, timers, cameraX, distance, score, bestScore,
                  storage, leaderboard, input, clock >>

\* update(dt) of the vertical-drop variant while playing
DropUpdate(dt) ==
  LET t == timers.difficultyTimer + dt
      dist == distance + DropDistanceStep(t, dt)
      scoreInt == dist \div 1000
      keyDir == (IF input.left THEN -1 ELSE 0) + (IF input.right THEN 1 ELSE 0)
      intendedDirection == IF ~input.left /\ ~input.right
                           THEN input.pointerDirection ELSE keyDir
      vx == intendedDirection * SURFER_SPEED
      x2 == Constrain(surfer.x + TimesDt(vx, dt), viewport.width)
      spawnTimer == timers.spawnTimer + dt
      spawns == spawnTimer >= effectiveInterval(timers.spawnInterval, t)
  IN  /\ surfer' = [surfer EXCEPT !.x = x2, !.vx = vx]
      /\ distance' = dist
      /\ score' = scoreInt
      /\ timers' = [timers EXCEPT !.difficultyTimer = t,
                                  !.spawnTimer = IF spawns THEN 0 ELSE spawnTimer]
      /\ \E o \in IF spawns THEN { DropSpawn(rx, rt, rr) :
                                    rx \in Rands, rt \in TypeRands, rr \in Rands }
                 ELSE { [x |-> 0, y |-> 0, radius |-> 0, type |-> "none"] } :
           LET spawned == IF spawns THEN Append(obstacles, o) ELSE obstacles
               moved == MoveObstacles(spawned, 1, TimesDt(scrollSpeed(t), dt), x2, surfer.y)
           IN  /\ obstacles' = moved.obs
               /\ IF moved.hit
                  THEN state' = "gameover" /\ saveBestScore(scoreInt)
                  ELSE UNCHANGED << state, bestScore, storage >>
      /\ trace' = [NoTick("update") EXCEPT !.dt = dt, !.prevScore = distance \div 1000]

\* loop(timestamp) of the vertical-drop variant, gap ms after the previous one
DropLoop(gap) ==
  /\ variant = "drop"
  /\ clock.frameCount < MaxDropFrames
  /\ gap < DropMaxDt => clock.index < MaxShortFrames
  /\ LET dt == Min(gap, DropMaxDt)
     IN  /\ IF state = "playing"
            THEN /\ DropUpdate(dt)
                 /\ clock' = [clock EXCEPT !.frameCount = @ + 1,
                                           !.index = IF gap < DropMaxDt THEN @ + 1 ELSE @]
            ELSE /\ clock' = clock
                 /\ trace' = [NoTick("idle") EXCEPT !.dt = dt,
                                                    !.prevScore = distance \div 1000]
                 /\ UNCHANGED << state, surfer, obstacles, timers, distance, score,
                                 bestScore, storage >>
  /\ UNCHANGED << input, hist >>
  /\ UNCHANGED dropFrame
  /\ UNCHANGED viewport
  /\ UNCHANGED leaderboard

\* the click handler of saveScoreButton (skipSaveButton only hides the panel);
\* gameState stays "gameover"
DropSave ==
  /\ variant = "drop"
  /\ state = "gameover"
  /\ hist.saves < MaxSaves
  /\ leaderboard' = addScore("Surfer", distance \div 1000, hist.saves + 1)
  /\ hist' = [hist EXCEPT !.saves = @ + 1]
  /\ trace' = [NoTick("save") EXCEPT !.prevScore = distance \div 1000]
  /\ UNCHANGED << state, surfer, obstacles, timers, distance, score, bestScore, storage,
                  input, clock >>
  /\ UNCHANGED dropFrame
  /\ UNCHANGED viewport

\* the page after the script has run, before any frame or input
DropInit ==
  /\ variant = "drop"
  /\ page = "live"
  /\ state = "menu"
  /\ viewport \in Viewports
  /\ world = [speed |-> 0]
  /\ penguin = [x |-> 0]
  /\ terrain = [segments |-> << >>]
  /\ nextObstacleWorldX = 0
  /\ cameraX = 0
  /\ surfer = [x |-> viewport.width \div 2, y |-> viewport.height \div 5, vx |-> 0]
  /\ obstacles = << >>
  /\ timers = [spawnTimer |-> 0, spawnInterval |-> 850, difficultyTimer |-> 0]
  /\ distance = 0
  /\ score = 0
  /\ \E stored \in StoredBest :
       /\ storage = stored
       /\ bestScore = IF stored < 0 THEN 0 ELSE stored
  /\ input = [left |-> FALSE, right |-> FALSE, pointerDirection |-> 0]
  /\ clock = [lastTime |-> 0, elapsedTime |-> 0, frameCount |-> 0, sum |-> 0,
              index |-> 0, accumulator |-> 0]
  /\ hist = [runs |-> 0, inputs |-> 0, saves |-> 0]
  /\ trace = NoTick("load")
  /\ leaderboard = NoBoard

DropNext ==
  \/ DropStart
  \/ \E side \in {"left", "right"}, down \in BOOLEAN : DropKey(side, down)
  \/ \E dir \in {-1, 1} : pointerDown(dir)
  \/ pointerUp
  \/ DropSave
  \/ \E w \in ResizedWidths : resizeCanvas(w)
  \/ \E gap \in Gaps : DropLoop(gap)

SpecDrop == DropInit /\ [][DropNext]_vars
-----------------------------------------------------------------------------
(* Racing Penguin (hill glide): the script embedded in src/README.md       *)
(* 32-bit words are pairs << hi, lo >> of 16-bit halves.                   *)

\* bitwise XOR and OR of two bits, of two 4-bit naturals (as tables) and of
\* two 16-bit naturals
XorBit(a, b) == (a + b) % 2

OrBit(a, b) == IF a + b > 0 THEN 1 ELSE 0

Xor4 ==
  [a \in 0..15 |-> [b \in 0..15 |->
     XorBit(a % 2, b % 2) + 2 * XorBit((a \div 2) % 2, (b \div 2) % 2)
       + 4 * XorBit((a \div 4) % 2, (b \div 4) % 2) + 8 * XorBit(a \div 8, b \div 8)]]

Or4 ==
  [a \in 0..15 |-> [b \in 0..15 |->
     OrBit(a % 2, b % 2) + 2 * OrBit((a \div 2) % 2, (b \div 2) % 2)
       + 4 * OrBit((a \div 4) % 2, (b \div 4) % 2) + 8 * OrBit(a \div 8, b \div 8)]]

Xor16(a, b) ==
  Xor4[a % 16][b % 16] + 16 * Xor4[(a \div 16) % 16][(b \div 16) % 16]
    + 256 * Xor4[(a \div 256) % 16][(b \div 256) % 16]
    + 4096 * Xor4[a \div 4096][b \div 4096]

Or16(a, b) ==
  Or4[a % 16][b % 16] + 16 * Or4[(a \div 16) % 16][(b \div 16) % 16]
    + 256 * Or4[(a \div 256) % 16][(b \div 256) % 16]
    + 4096 * Or4[a \div 4096][b \div 4096]

XorW(u, v) == << Xor16(u[1], v[1]), Xor16(u[2], v[2]) >>

OrW(u, v) == << Or16(u[1], v[1]), Or16(u[2], v[2]) >>

\* u >>> k for 0 < k < 16
ShrW(u, k) ==
  LET p == 2 ^ k
      q == 2 ^ (16 - k)
  IN  << u[1] \div p, (u[1] % p) * q + u[2] \div p >>

\* (u + v) mod 2^32
AddW(u, v) ==
  LET lo == u[2] + v[2]
  IN  << (u[1] + v[1] + lo \div 65536) % 65536, lo % 65536 >>

\* the low 16 bits of a * b, for 16-bit a and b
MulLo(a, b) == (a * (b % 256) + ((a * (b \div 256)) % 256) * 256) % 65536

\* Math.imul(u, v): the low 32 bits of the product
ImulW(u, v) ==
  LET p0 == u[2] * (v[2] % 256)
      p1 == u[2] * (v[2] \div 256)
      low == p0 + (p1 % 256) * 256
      carry == p1 \div 256 + low \div 65536
  IN  << (carry + MulLo(u[1], v[2]) + MulLo(u[2], v[1])) % 65536, low % 65536 >>

\* seed += 0x6d2b79f5, kept modulo 2^32 (every later use coerces it to 32 bits)
Bump(seed) == AddW(seed, << 27947, 31221 >>)

\* the body of the closure after "seed += 0x6d2b79f5": the 32-bit word
\* ((t ^ (t >>> 14)) >>> 0) computed from the bumped seed s
Mix(s) ==
  Strict(ImulW(XorW(s, ShrW(s, 15)), OrW(s, << 0, 1 >>)), LAMBDA t1 :
    Strict(XorW(t1, AddW(t1, ImulW(XorW(t1, ShrW(t1, 7)), OrW(t1, << 0, 61 >>)))),
           LAMBDA t2 : XorW(t2, ShrW(t2, 14))))

\* one call of the closure mulberry32 returns: the new seed and the 32-bit
\* word whose value / 2^32 is the result
mulberry32(seed) == [seed |-> Bump(seed), word |-> Mix(Bump(seed))]

\* word / 4294967296 in 1/1000
Frac(w) == (w[1] * 1000 + (w[2] * 1000) \div 65536) \div 65536

\* n calls of rng() whose results are discarded
RECURSIVE Skip(_, _)
Skip(seed, n) == IF n = 0 THEN seed ELSE Skip(Bump(seed), n - 1)

\* generateSegment(startX) with the generator at seed: the segment and the
\* generator after its four draws (amplitude, length, slope, crest, in that order)
generateSegment(startX, seed) ==
  LET a == Mix(Skip(seed, 1))
      b == Mix(Skip(seed, 2))
      c == Mix(Skip(seed, 3))
      d == Mix(Skip(seed, 4))
  IN  [seg |-> [x |-> startX,
                length |-> 304000 + 152 * Frac(b),
                amplitude |-> 120000 + 120 * Frac(a),
                slope |-> -200 + (600 * Frac(c)) \div 1000,
                crest |-> IF d[1] > 32768 \/ (d[1] = 32768 /\ d[2] > 0) THEN 1 ELSE -1],
       seed |-> Skip(seed, 4)]

\* segments the non-terminating loop of ensureSegments is shown to have pushed
MaxPushed == 2

segmentLength == 380000

\* the flat lead-in segment ensureSegments pushes into an empty list
FlatSegment == [x |-> -segmentLength * 2, length |-> segmentLength, amplitude |-> 0,
                slope |-> 0, crest |-> 1]

SegEnd(seg) == seg.x + seg.length

\* the loop condition without the look-ahead of two viewport widths
NeedsExtendNoLookahead(last, camX, w) == SegEnd(last) < camX

\* the condition of "while (last.x + last.length < camera.x + width * 2)";
\* last is bound once, before the loop, and the body never changes it
NeedsExtend(last, camX, w) == SegEnd(last) < camX + w * 2

\* n iterations of the body of that loop: each pushes generateSegment(end of last)
RECURSIVE PushAt(_, _, _, _)
PushAt(segs, seed, startX, n) ==
  IF n = 0 THEN [segments |-> segs, seed |-> seed]
  ELSE Strict(generateSegment(startX, seed), LAMBDA g :
         PushAt(Append(segs, g.seg), g.seed, startX, n - 1))

\* the pruning loop "while (length > 0 && segments[1].x + segments[1].length <
\* camera.x - width) shift()": reading segments[1] of a one-element list throws
RECURSIVE Prune(_, _, _)
Prune(segs, camX, w) ==
  IF Len(segs) = 0 THEN [segments |-> segs, outcome |-> "ok"]
  ELSE IF Len(segs) < 2 THEN [segments |-> segs, outcome |-> "threw"]
  ELSE IF SegEnd(segs[2]) < camX - w THEN Prune(Tail(segs), camX, w)
  ELSE [segments |-> segs, outcome |-> "ok"]

\* the first statement of ensureSegments: an empty list gets the flat lead-in
\* and generateSegment(0)
FillEmpty(segs, seed) ==
  IF Len(segs) = 0
  THEN Strict(generateSegment(0, seed), LAMBDA g :
         [segments |-> << FlatSegment, g.seg >>, seed |-> g.seed])
  ELSE [segments |-> segs, seed |-> seed]

\* ensureSegments(): the list and the generator after the call, and whether the
\* call returned ("ok"), never returns ("hung") or threw ("threw")
ensureSegments(segs, seed, camX, w) ==
  Strict(FillEmpty(segs, seed), LAMBDA first :
    IF NeedsExtend(first.segments[Len(first.segments)], camX, w)
    THEN Strict(PushAt(first.segments, first.seed,
                       SegEnd(first.segments[Len(first.segments)]), MaxPushed),
                LAMBDA pushed : [segments |-> pushed.segments, seed |-> pushed.seed,
                                 outcome |-> "hung"])
    ELSE Strict(Prune(first.segments, camX, w),
                LAMBDA pruned : [segments |-> pruned.segments, seed |-> first.seed,
                                 outcome |-> pruned.outcome]))

\* the largest r with r * r <= n, searched in lo..hi
RECURSIVE SqrtIn(_, _, _)
SqrtIn(n, lo, hi) ==
  IF lo >= hi THEN lo
  ELSE LET mid == (lo + hi + 1) \div 2
       IN  IF mid * mid <= n THEN SqrtIn(n, mid, hi) ELSE SqrtIn(n, lo, mid - 1)

\* Math.atan for an argument in 1/1000, result in mrad
AtanM(z) ==
  IF Abs(z) <= 1000 THEN (z * 1000) \div (1000 + (28 * ((z * z) \div 1000)) \div 100)
  ELSE LET r == (Abs(z) * 1000) \div ((z * z) \div 1000 + 280)
       IN  IF z > 0 THEN 1571 - r ELSE r - 1571

\* heightAtSegment(seg, t, crestDir) at t = u / seg.length
heightAtSegment(seg, u) ==
  (viewport.height * 55) \div 100 + MulDiv(u, seg.slope, 1000)
    + ((SinM(MulDiv(u, PiM, seg.length)) * (seg.amplitude \div 1000)) * seg.crest)

\* ahead - behind of terrainNormal(seg, t, crestDir), with dx = 1 px
NormalRise(seg, u) ==
  LET aheadU == Max(0, Min(seg.length, u + 1000))
      behindU == Max(0, Min(seg.length, u - 1000))
  IN  heightAtSegment(seg, aheadU) - heightAtSegment(seg, behindU)

\* terrainNormal(seg, t, crestDir), components in 1/1000
terrainNormal(seg, u) ==
  LET dy == NormalRise(seg, u)
      len == SqrtIn(dy * dy + 1000000, 1000, 46000)
  IN  [x |-> (-dy * 1000) \div len, y |-> 1000000 \div len]

\* slopeAngle(normal) = Math.atan2(normal.x, normal.y), in mrad (normal.y > 0)
slopeAngle(normal) == AtanM((normal.x * 1000) \div normal.y)

\* the segment terrainHeight(x) picks: the first one containing x, else segments[0]
SegmentAt(segs, x) ==
  LET hits == { i \in 1..Len(segs) : x >= segs[i].x /\ x <= SegEnd(segs[i]) }
  IN  IF hits = {} THEN segs[1]
      ELSE segs[CHOOSE i \in hits : \A j \in hits : i <= j]

\* the y terrainHeight computes inside segment seg at x = seg.x + u:
\* base + Math.sin(t * Math.PI) * seg.amplitude * crestDir, with
\* base = height * 0.55 + seg.slope * (x - seg.x); "eased" is computed and unused
SurfaceY(seg, u) ==
  (viewport.height * 55) \div 100 + MulDiv(u, seg.slope, 1000)
    + ((SinM(MulDiv(u, PiM, seg.length)) * (seg.amplitude \div 1000)) * seg.crest)

\* terrainHeight(x) on the list ensureSegments returned
terrainHeight(segs, x) ==
  Strict(SegmentAt(segs, x), LAMBDA seg :
    [y |-> SurfaceY(seg, x - seg.x), normal |-> terrainNormal(seg, x - seg.x)])

\* terrain.seed = Math.floor(Math.random() * 1000000)
Seeds == {0, 1}

\* window.innerWidth at page load and after a resize, in 1/1000 px
Widths == {100000, 640000}

\* window.innerHeight, in 1/1000 px
HillHeight == 400000

\* Wall-clock gaps between two frame callbacks of the hill loop, in ms: shorter
\* than a fixed step, one step, and a gap the 0.05 s clamp cuts
HillGaps == {8, 20, 1000}

\* FIXED_DT = 1/60 s and the frameDt clamp 0.05 s, in 1/3000 s
FIXED_DT == 50

MaxFrameDt == 150

penguinHeight == 70000

\* the variables no operation of the hill-glide program touches
hillFrame == << variant, world, surfer, obstacles, nextObstacleWorldX, timers >>

\* saveBest without its comparison
saveBestAlways(sc) == bestScore' = sc /\ storage' = sc

\* saveBest(score)
saveBest(sc) ==
  IF sc > bestScore
  THEN bestScore' = sc /\ storage' = sc
  ELSE UNCHANGED << bestScore, storage >>

\* the segments a call of ensureSegments appended to the list segs
Generated(segs, after) ==
  IF Len(segs) = 0 THEN Tail(after) ELSE SubSeq(after, Len(segs) + 1, Len(after))

\* hist.runSegs after a call of ensureSegments: what the generator produced is
\* appended to the record of the current run
Record(segs, after) ==
  [hist EXCEPT !.runSegs[Len(hist.runSegs)] = @ \o Generated(segs, after)]

\* resetGame(), from the start button and from the restart button
resetGame ==
  /\ variant = "hill"
  /\ page \in {"live", "stopped"}
  /\ hist.runs < MaxRuns
  /\ state' = "playing"
  /\ \E e \in { ensureSegments(terrain.segments, terrain.seed, cameraX, viewport.width) } :
     LET ground == terrainHeight(e.segments, 0).y
         rec == Record(terrain.segments, e.segments)
     IN  IF e.outcome = "ok"
         THEN /\ penguin' = [x |-> (viewport.width * 28) \div 100,
                             y |-> ground - penguinHeight, vx |-> 0, vy |-> 0,
                             onGround |-> TRUE, combo |-> 0, boosts |-> 0]
              /\ score' = 0
              /\ distance' = 0
              /\ terrain' = [segments |-> << >>, seed |-> e.seed]
              /\ cameraX' = 0
              /\ hist' = [rec EXCEPT !.runs = @ + 1, !.runSegs = Append(@, << >>),
                                      !.ends = 0, !.fired = 0]
              /\ page' = page
         ELSE /\ penguin' = [penguin EXCEPT !.x = (viewport.width * 28) \div 100]
              /\ terrain' = [segments |-> e.segments, seed |-> e.seed]
              /\ hist' = [rec EXCEPT !.runs = @ + 1, !.ends = 0, !.fired = 0]
              /\ page' = IF e.outcome = "hung" THEN "hung" ELSE page
              /\ UNCHANGED << score, distance, cameraX >>
  /\ trace' = NoTick("resetGame")
  /\ UNCHANGED << bestScore, storage, input, viewport, clock >>
  /\ UNCHANGED hillFrame
  /\ UNCHANGED leaderboard

\* endRun()
endRun ==
  /\ state' = "gameover"
  /\ saveBest(distance \div 10000)

\* watchdog firings counted per run (hist.fired stops counting there)
MaxFired == 2

\* the setInterval callback without its "if (state !== playing) return"
WatchdogAnyState ==
  /\ variant = "hill"
  /\ page \in {"live", "stopped"}
  /\ IF penguin.vx < 10000 /\ penguin.onGround
     THEN /\ endRun
          /\ hist' = [hist EXCEPT !.ends = @ + 1, !.fired = Min(@ + 1, MaxFired)]
          /\ trace' = [NoTick("watchdog") EXCEPT !.ended = TRUE]
     ELSE /\ UNCHANGED << state, bestScore, storage >>
          /\ hist' = [hist EXCEPT !.fired = Min(@ + 1, MaxFired)]
          /\ trace' = NoTick("watchdog")
  /\ UNCHANGED << page, penguin, terrain, cameraX, distance, score, input, viewport,
                  clock >>
  /\ UNCHANGED hillFrame
  /\ UNCHANGED leaderboard

\* the setInterval callback (every 1500 ms); hist.ends counts the calls of
\* endRun and hist.fired the firings since the last resetGame
Watchdog ==
  /\ variant = "hill"
  /\ page \in {"live", "stopped"}
  /\ IF state = "playing" /\ penguin.vx < 10000 /\ penguin.onGround
     THEN /\ endRun
          /\ hist' = [hist EXCEPT !.ends = @ + 1, !.fired = Min(@ + 1, MaxFired)]
          /\ trace' = [NoTick("watchdog") EXCEPT !.ended = TRUE]
     ELSE /\ UNCHANGED << state, bestScore, storage >>
          /\ hist' = [hist EXCEPT !.fired = Min(@ + 1, MaxFired)]
          /\ trace' = NoTick("watchdog")
  /\ UNCHANGED << page, penguin, terrain, cameraX, distance, score, input, viewport,
                  clock >>
  /\ UNCHANGED hillFrame
  /\ UNCHANGED leaderboard

\* the click handlers of saveScoreButton and skipSaveButton
Dismiss(button) ==
  /\ variant = "hill"
  /\ page \in {"live", "stopped"}
  /\ state = "gameover"
  /\ state' = "menu"
  /\ leaderboard' = IF button = "save"
                    THEN addScore("Penguin", distance \div 10000, hist.runs)
                    ELSE leaderboard
  /\ trace' = NoTick(button)
  /\ UNCHANGED << page, penguin, terrain, cameraX, distance, score, bestScore, storage,
                  input, viewport, clock, hist >>
  /\ UNCHANGED hillFrame

\* the press and release handlers (Space, mouse, touch): input.held = down
Hold(down) ==
  /\ variant = "hill"
  /\ page \in {"live", "stopped"}
  /\ input.held # down
  /\ hist.inputs < MaxInputs
  /\ input' = [input EXCEPT !.held = down]
  /\ hist' = [hist EXCEPT !.inputs = @ + 1]
  /\ trace' = NoTick("hold")
  /\ UNCHANGED << page, state, penguin, terrain, cameraX, distance, score, bestScore,
                  storage, viewport, clock >>
  /\ UNCHANGED hillFrame
  /\ UNCHANGED leaderboard

\* the resize handler: width = window.innerWidth
Resize(w) ==
  /\ variant = "hill"
  /\ page \in {"live", "stopped"}
  /\ viewport.width # w
  /\ hist.inputs < MaxInputs
  /\ viewport' = [viewport EXCEPT !.width = w]
  /\ hist' = [hist EXCEPT !.inputs = @ + 1]
  /\ trace' = NoTick("resize")
  /\ UNCHANGED << page, state, penguin, terrain, cameraX, distance, score, bestScore,
                  storage, input, clock >>
  /\ UNCHANGED hillFrame
  /\ UNCHANGED leaderboard

\* a loop that steps until the accumulator is used up
StepsUncapped(acc) == acc \div FIXED_DT

\* the iterations of `while (accumulator >= FIXED_DT && stepCount < 6)`
StepsFor(acc) == Min(6, acc \div FIXED_DT)

\* loop(timestamp) of the hill-glide program, gap ms after the previous callback.
\* update(FIXED_DT) calls ensureSegments and then, in updateBirds, the undefined
\* requestJump: the ReferenceError leaves loop before the accumulator is reduced,
\* before draw() and before the next frame is requested.
HillLoop(gap) ==
  /\ variant = "hill"
  /\ page = "live"
  /\ clock.frameCount < MaxFrames
  /\ LET acc == clock.accumulator + Min(gap * 3, MaxFrameDt)
         steps == StepsFor(acc)
         updates == state = "playing" /\ steps > 0
     IN  \E e \in { ensureSegments(terrain.segments, terrain.seed, cameraX, viewport.width) } :
         /\ clock' = [clock EXCEPT !.frameCount = @ + 1,
                                   !.accumulator = IF updates THEN acc
                                                   ELSE acc - steps * FIXED_DT]
         /\ terrain' = [segments |-> e.segments, seed |-> e.seed]
         /\ hist' = Record(terrain.segments, e.segments)
         /\ page' = IF e.outcome = "hung" THEN "hung"
                    ELSE IF updates \/ e.outcome = "threw" THEN "stopped" ELSE "live"
         /\ trace' = [NoTick(IF updates THEN "update threw" ELSE "draw")
                        EXCEPT !.dt = gap, !.prevScore = score,
                               !.steps = IF updates THEN 1 ELSE steps,
                               !.calls = IF updates THEN 1 ELSE 0,
                               !.ensured = e.outcome = "ok", !.camX = cameraX]
  /\ UNCHANGED << state, penguin, cameraX, distance, score, bestScore, storage, input,
                  viewport >>
  /\ UNCHANGED hillFrame
  /\ UNCHANGED leaderboard

\* the page when the script has run to its end, or is stuck in its first
\* terrainHeight call
HillInit ==
  /\ variant = "hill"
  /\ state = "menu"
  /\ world = [speed |-> 0]
  /\ surfer = [x |-> 0]
  /\ obstacles = << >>
  /\ nextObstacleWorldX = 0
  /\ timers = [spawnTimer |-> 0]
  /\ cameraX = 0
  /\ distance = 0
  /\ score = 0
  /\ input = [held |-> FALSE]
  /\ \E w \in Widths : viewport = [width |-> w, height |-> HillHeight]
  /\ \E s \in Seeds :
       \* three ParallaxLayer constructors draw from rng before the terrain does
       \E e \in { ensureSegments(<< >>, Skip(<< 0, s >>, 3), 0, viewport.width) } :
           /\ terrain = [segments |-> e.segments, seed |-> e.seed]
           /\ page = IF e.outcome = "hung" THEN "hung" ELSE "live"
           /\ hist = [runs |-> 0, inputs |-> 0, runSegs |-> << Tail(e.segments) >>,
                      ends |-> 0, fired |-> 0]
           /\ penguin = [x |-> (viewport.width * 28) \div 100,
                         y |-> IF e.outcome = "hung" THEN 0
                               ELSE terrainHeight(e.segments,
                                      (viewport.width * 28) \div 100).y - penguinHeight,
                         vx |-> 0, vy |-> 0, onGround |-> FALSE, combo |-> 0,
                         boosts |-> 0]
  /\ \E stored \in StoredBest :
       /\ storage = stored
       /\ bestScore = IF stored < 0 \/ page = "hung" THEN 0 ELSE stored
  /\ clock = [lastTime |-> 0, elapsedTime |-> 0, frameCount |-> 0, sum |-> 0,
              index |-> 0, accumulator |-> 0]
  /\ trace = [NoTick("load") EXCEPT !.ensured = page = "live"]
  /\ leaderboard = NoBoard

\* accumulator at the start of a frame, in 1/3000 s; the page itself starts
\* from 0 and never holds three steps or more at the start of a frame
Accumulators == {0, 49, 100, 299, 300, 1000}

\* the page in front of a frame callback, with any accumulator value
LoopInit ==
  /\ variant = "hill"
  /\ page = "live"
  /\ state \in {"menu", "playing", "gameover"}
  /\ world = [speed |-> 0]
  /\ surfer = [x |-> 0]
  /\ obstacles = << >>
  /\ nextObstacleWorldX = 0
  /\ timers = [spawnTimer |-> 0]
  /\ cameraX = 0
  /\ distance = 0
  /\ score = 0
  /\ input = [held |-> FALSE]
  /\ viewport = [width |-> 100000, height |-> HillHeight]
  /\ \E s \in Seeds :
       \E e \in { ensureSegments(<< >>, Skip(<< 0, s >>, 3), 0, viewport.width) } :
           /\ e.outcome = "ok"
           /\ terrain = [segments |-> e.segments, seed |-> e.seed]
           /\ hist = [runs |-> 0, inputs |-> 0, runSegs |-> << Tail(e.segments) >>,
                      ends |-> 0, fired |-> 0]
           /\ penguin = [x |-> (viewport.width * 28) \div 100,
                         y |-> terrainHeight(e.segments,
                                 (viewport.width * 28) \div 100).y - penguinHeight,
                         vx |-> 0, vy |-> 0, onGround |-> FALSE, combo |-> 0,
                         boosts |-> 0]
  /\ bestScore = 0
  /\ storage = -1
  /\ \E acc \in Accumulators :
       clock = [lastTime |-> 0, elapsedTime |-> 0, frameCount |-> 0, sum |-> 0,
                index |-> 0, accumulator |-> acc]
  /\ trace = [NoTick("load") EXCEPT !.ensured = TRUE]
  /\ leaderboard = NoBoard

LoopNext == \E gap \in HillGaps : HillLoop(gap)

SpecLoop == LoopInit /\ [][LoopNext]_vars

HillNext ==
  \/ resetGame
  \/ Watchdog
  \/ \E button \in {"save", "skip"} : Dismiss(button)
  \/ \E down \in BOOLEAN : Hold(down)
  \/ \E w \in Widths : Resize(w)
  \/ \E gap \in HillGaps : HillLoop(gap)

SpecHill == HillInit /\ [][HillNext]_vars

\* C8: in every reachable state of the hill-glide program the segment list is
\* contiguous and strictly increasing: each segment starts where the one
\* before it ends.
C8_SegmentsContiguous ==
  variant = "hill" =>
    \A i \in 1..(Len(terrain.segments) - 1) :
      terrain.segments[i + 1].x = SegEnd(terrain.segments[i])

\* C9: two runs of one page session (two resetGame calls, same terrain.seed)
\* generate the same sequence of segments, compared draw by draw.
C9_RunsReproduceTerrain ==
  variant = "hill" =>
    \A i, j \in 2..Len(hist.runSegs) :
      \A k \in 1..Min(Len(hist.runSegs[i]), Len(hist.runSegs[j])) :
        hist.runSegs[i][k] = hist.runSegs[j][k]

\* C10: for consecutive segments A, B the height terrainHeight gives at the
\* end of A (t = 1) equals the height it gives at the start of B (t = 0).
C10_HeightContinuous ==
  variant = "hill" =>
    \A i \in 1..(Len(terrain.segments) - 1) :
      SurfaceY(terrain.segments[i], terrain.segments[i].length)
        = SurfaceY(terrain.segments[i + 1], 0)
-----------------------------------------------------------------------------
(* updatePenguin(dt) of the hill-glide program as a function of the state  *)
(* it is called in. The page never gets to call it (update throws in       *)
(* updateBirds first), so its contract is checked from drawn states.       *)

\* calls of updatePenguin per behaviour
MaxSteps == 3

\* window.innerWidth in the states updatePenguin is called in, in 1/1000 px:
\* the narrower the window, the further the camera gets on the first segments
PenguinWidths == {20000, 100000}

\* camera.x when the first call is made, in 1/1000 px
CamXs == {0, 150000, 200000, 250000}

\* penguin.vx and penguin.vy when the first call is made, in 1/1000 px/s
PenguinVx == {0, 130000, 1000000, 1800000}

PenguinVy == {-500000, 100000, 300000, 900000}

\* height of an airborne penguin's y above its landing position, in 1/1000 px
Altitudes == {2000, 200000}

\* penguin.boosts when the first call is made, in 1/1000000
Boosts == {0, 250000}

\* penguin.combo before the first modelled tick
Combos == {0, 2}

physicsMaxSpeed == 1800000

physicsSlopeBoost == 1400

perfectThreshold == 450

\* the slope term of a grounded tick:
\* Math.sin(slope) * physics.slopeBoost * dt * (0.6 + diveForce * 0.85), dt = 1/60
PenguinSlopeTerm(slope, held) ==
  MulDiv(SinM(slope) * physicsSlopeBoost, IF held THEN 1450 ELSE 600, 60000)

\* clamp(v, lo, hi)
clamp(v, lo, hi) == Max(lo, Min(hi, v))

\* a crest test that ignores the dive input
isCrestHeld(slope, held, tangentSpeed) == slope < -200 /\ tangentSpeed > 120000

\* isCrest = slope < -0.2 && !penguin.diveHeld && tangentSpeed > 120
isCrest(slope, held, tangentSpeed) == slope < -200 /\ ~held /\ tangentSpeed > 120000

\* the grounded branch of updatePenguin: the penguin after it
GroundedTick(p, slope, groundY, held) ==
  LET v1 == MulDiv(p.vx + PenguinSlopeTerm(slope, held), 998, 1000)
      v2 == clamp(v1, 0, physicsMaxSpeed)
      v3 == IF v2 < 140000 THEN v2 + MulDiv(180000 - v2, 22, 600) ELSE v2
      crest == isCrest(slope, held, p.vx)
  IN  [p EXCEPT !.vx = IF held THEN v3 + (CosM(slope) * 220) \div 60 ELSE v3,
                !.y = groundY - penguinHeight \div 2,
                !.vy = (IF crest THEN -Max(420000, MulDiv(p.vx, 4, 10)) ELSE 0)
                       + (IF held THEN (SinM(slope) * 180) \div 60 ELSE 0),
                !.onGround = ~crest]

\* the airborne branch up to "penguin.y += penguin.vy * dt"
Flight(p, held) ==
  LET vy1 == p.vy + (IF held THEN 3800000 ELSE 2200000) \div 60
      vx1 == clamp(MulDiv(p.vx, 9835, 10000), 0, (physicsMaxSpeed * 14) \div 10)
      vy2 == IF ~held /\ vy1 > 0 THEN vy1 - (6 * (vx1 \div 60)) \div 100 ELSE vy1
      spend == IF p.boosts > 0 /\ ~held THEN Min(p.boosts, 5833) ELSE 0
      vy3 == vy2 - (220 * spend) \div 1000
  IN  [p EXCEPT !.vx = vx1 + (40 * spend) \div 1000, !.vy = vy3,
                !.boosts = @ - spend, !.y = @ + vy3 \div 60]

\* the landing branch with the reset of the combo left out of the else branch
LandingKeepsCombo(p, slope, groundY) ==
  LET impact == Abs(p.vy)
      perfect == Abs(slope) < perfectThreshold /\ impact > 200000
  IN  [p EXCEPT !.onGround = TRUE, !.y = groundY - (penguinHeight * 4) \div 10, !.vy = 0,
                !.combo = IF perfect THEN @ + 1 ELSE @,
                !.vx = IF perfect THEN @ + Min(600000, MulDiv(impact, 8, 10))
                       ELSE MulDiv(@, 3, 4)]

\* "Collision with ground": the penguin after the landing branch
Landing(p, slope, groundY) ==
  LET impact == Abs(p.vy)
      perfect == Abs(slope) < perfectThreshold /\ impact > 200000
  IN  [p EXCEPT !.onGround = TRUE, !.y = groundY - (penguinHeight * 4) \div 10, !.vy = 0,
                !.combo = IF perfect THEN @ + 1 ELSE 0,
                !.vx = IF perfect THEN @ + Min(600000, MulDiv(impact, 8, 10))
                       ELSE MulDiv(@, 3, 4)]

\* the airborne branch of updatePenguin: the penguin after it
AirborneTick(p, slope, groundY, held) ==
  Strict(Flight(p, held), LAMBDA q :
    IF q.y + (penguinHeight * 4) \div 10 >= groundY THEN Landing(q, slope, groundY) ELSE q)

\* updatePenguin(FIXED_DT): terrainHeight(camera.x + penguin.x) first (its
\* ensureSegments may never return), then one branch, then the forward movement
updatePenguin ==
  /\ variant = "updatePenguin"
  /\ page = "live"
  /\ clock.frameCount < MaxSteps
  /\ \E e \in { ensureSegments(terrain.segments, terrain.seed, cameraX, viewport.width) } :
       /\ terrain' = [segments |-> e.segments, seed |-> e.seed]
       /\ hist' = Record(terrain.segments, e.segments)
       /\ IF e.outcome # "ok"
          THEN /\ page' = "hung"
               /\ trace' = NoTick("hung")
               /\ UNCHANGED << penguin, cameraX, distance, score >>
          ELSE \E seg \in { SegmentAt(e.segments, cameraX + penguin.x) } :
               \E slope \in { slopeAngle(terrainNormal(seg, cameraX + penguin.x - seg.x)) } :
               \E q \in { IF penguin.onGround
                          THEN GroundedTick(penguin, slope,
                                 SurfaceY(seg, cameraX + penguin.x - seg.x), input.held)
                          ELSE AirborneTick(penguin, slope,
                                 SurfaceY(seg, cameraX + penguin.x - seg.x), input.held) } :
                 LET forward == (q.vx + 280000) \div 60
                 IN  /\ penguin' = q
                     /\ cameraX' = cameraX + forward
                     /\ distance' = distance + forward
                     /\ score' = (distance + forward) \div 10000
                     /\ page' = page
                     /\ trace' = [NoTick("updatePenguin") EXCEPT
                                    !.dt = FIXED_DT,
                                    !.airborne = ~penguin.onGround,
                                    !.landed = ~penguin.onGround /\ q.onGround,
                                    !.slope = slope,
                                    !.rise = NormalRise(seg, cameraX + penguin.x - seg.x),
                                    !.slopeTerm = IF penguin.onGround
                                                  THEN PenguinSlopeTerm(slope, input.held)
                                                  ELSE 0,
                                    !.prevScore = score,
                                    !.ensured = TRUE,
                                    !.camX = cameraX,
                                    !.impact = IF penguin.onGround THEN 0
                                               ELSE Abs(Flight(penguin, input.held).vy),
                                    !.vxIn = IF penguin.onGround THEN penguin.vx
                                             ELSE Flight(penguin, input.held).vx,
                                    !.comboIn = penguin.combo]
  /\ clock' = [clock EXCEPT !.frameCount = @ + 1]
  /\ UNCHANGED << state, bestScore, storage, input, viewport >>
  /\ UNCHANGED hillFrame
  /\ UNCHANGED leaderboard

\* a playing state of the hill-glide program in which updatePenguin is called:
\* the terrain of a fresh list, the penguin on the ground or in the air
PenguinInit ==
  /\ variant = "updatePenguin"
  /\ page = "live"
  /\ state = "playing"
  /\ world = [speed |-> 0]
  /\ surfer = [x |-> 0]
  /\ obstacles = << >>
  /\ nextObstacleWorldX = 0
  /\ timers = [spawnTimer |-> 0]
  /\ viewport \in { [width |-> w, height |-> HillHeight] : w \in PenguinWidths }
  /\ cameraX \in CamXs
  /\ distance = cameraX
  /\ score = distance \div 10000
  /\ input \in [held : BOOLEAN]
  /\ \E s \in Seeds :
     \E e \in { ensureSegments(<< >>, Skip(<< 0, s >>, 3), cameraX, viewport.width) } :
       /\ e.outcome = "ok"
       /\ terrain = [segments |-> e.segments, seed |-> e.seed]
       /\ hist = [runs |-> 1, inputs |-> 0, runSegs |-> << Tail(e.segments) >>,
                  ends |-> 0, fired |-> 0]
       /\ \E groundY \in { terrainHeight(e.segments, cameraX + (viewport.width * 28) \div 100).y } :
          \E vx \in PenguinVx, boosts \in Boosts, combo \in Combos :
            \/ penguin = [x |-> (viewport.width * 28) \div 100, y |-> groundY - penguinHeight \div 2, vx |-> vx,
                          vy |-> 0, onGround |-> TRUE, combo |-> combo, boosts |-> boosts]
            \/ \E vy \in PenguinVy, alt \in Altitudes :
                 penguin = [x |-> (viewport.width * 28) \div 100,
                            y |-> groundY - (penguinHeight * 4) \div 10 - alt,
                            vx |-> vx, vy |-> vy, onGround |-> FALSE, combo |-> combo,
                            boosts |-> boosts]
  /\ bestScore = 0
  /\ storage = -1
  /\ clock = [lastTime |-> 0, elapsedTime |-> 0, frameCount |-> 0, sum |-> 0,
              index |-> 0, accumulator |-> 0]
  /\ trace = [NoTick("load") EXCEPT !.ensured = TRUE, !.camX = cameraX]
  /\ leaderboard = NoBoard

PenguinNext == updatePenguin

SpecPenguin == PenguinInit /\ [][PenguinNext]_vars

\* C2: at the end of every updatePenguin tick (grounded, airborne or landing,
\* dive held or boosts being spent) 0 <= penguin.vx <= physics.maxSpeed.
C2_ForwardSpeedBounded ==
  trace.op = "updatePenguin" => (0 <= penguin.vx /\ penguin.vx <= physicsMaxSpeed)

\* C3: on a grounded tick the slope term added to penguin.vx is positive where
\* the terrain descends ahead (ground y grows with worldX) and negative where
\* it ascends.
C3_DownhillBoosts ==
  (trace.op = "updatePenguin" /\ ~trace.airborne)
    => /\ (trace.rise > 0 => trace.slopeTerm > 0)
       /\ (trace.rise < 0 => trace.slopeTerm < 0)

\* is [a, b] covered by segments of segs, walking from a through at most n of them
RECURSIVE Covers(_, _, _, _)
Covers(segs, a, b, n) ==
  \/ a > b
  \/ /\ n > 0
     /\ \E i \in 1..Len(segs) :
          /\ segs[i].x <= a /\ a <= SegEnd(segs[i])
          /\ \/ b <= SegEnd(segs[i])
             \/ SegEnd(segs[i]) > a /\ Covers(segs, SegEnd(segs[i]), b, n - 1)

\* C7: on return from ensureSegments, called with camera.x = c after any number
\* of ticks, at most one segment of the list lies fully behind c and the
\* segments cover [c, c + viewport width].
C7_PrunedAndCovering ==
  (trace.ensured /\ page = "live") =>
    /\ Cardinality({ i \in 1..Len(terrain.segments) :
                       SegEnd(terrain.segments[i]) < trace.camX }) <= 1
    /\ Covers(terrain.segments, trace.camX, trace.camX + viewport.width,
              Len(terrain.segments))

\* a tick of updatePenguin whose ensureSegments call returned with the camera
\* moved on from the origin and the lead-in segment behind it
C7_Witness ==
  /\ trace.op = "updatePenguin" /\ trace.ensured /\ page = "live"
  /\ trace.camX > 0 /\ clock.frameCount >= 2
  /\ \E i \in 1..Len(terrain.segments) : SegEnd(terrain.segments[i]) < trace.camX
-----------------------------------------------------------------------------
(* All programs of the repository                                          *)

Init == SurfInit \/ DropInit \/ HillInit \/ PenguinInit

Next == SurfNext \/ DropNext \/ HillNext \/ PenguinNext

Spec == Init /\ [][Next]_vars

\* the score of the current run: surf score = floor(distance / 10), hill-glide
\* floor(distance / 10) (penguin.scoreDistance, endRun), vertical drop floor(distance)
RunScore ==
  IF variant = "drop" THEN distance \div 1000
  ELSE IF variant \in {"hill", "updatePenguin"} THEN distance \div 10000
  ELSE score

\* a step that ends the run
RunEnds == state = "playing" /\ state' \in {"game_over", "gameover"}

\* C5: within one run the score never decreases, in every variant: no step
\* that stays inside a run (a tick, an input, the end of the run) lowers it.
C5_ScoreMonotone ==
  [][(hist.runs > 0 /\ hist.runs' = hist.runs) => RunScore' >= RunScore]_vars

\* a tick inside a run that raised a score that was already positive
C5_Witness ==
  /\ trace.op \in {"update", "updatePenguin"}
  /\ hist.runs > 0
  /\ trace.prevScore > 0
  /\ RunScore > trace.prevScore

\* C6: in every variant bestScore never decreases, the step that ends a run
\* sets it to the larger of its old value and the run's final score, and the
\* stored best-score value changes only in such a step and only to that value.
C6_BestScoreIsMax ==
  [][/\ bestScore' >= bestScore
     /\ RunEnds => bestScore' = Max(bestScore, RunScore')
     /\ storage' # storage =>
          (RunEnds /\ storage' = Max(bestScore, RunScore') /\ storage' = bestScore')]_vars

\* a run has just ended with a final score above the best score before it,
\* which was itself loaded from the store
C6_Witness ==
  /\ state \in {"game_over", "gameover"}
  /\ trace.op = "update"
  /\ trace.prevBest = 40
  /\ bestScore > trace.prevBest
  /\ storage = bestScore
-----------------------------------------------------------------------------
(* Start of a hill-glide run                                               *)

\* C11: right after resetGame the segment that contains the rider's world
\* position camera.x + penguin.x (in the list the next terrainHeight call
\* works on: resetGame leaves the list empty) has slope 0 and amplitude 0.
C11_StartsOnFlatGround ==
  (variant = "hill" /\ trace.op = "resetGame" /\ page # "hung") =>
    \E e \in { ensureSegments(terrain.segments, terrain.seed, cameraX, viewport.width) } :
    \E seg \in { SegmentAt(e.segments, cameraX + penguin.x) } :
      seg.slope = 0 /\ seg.amplitude = 0
-----------------------------------------------------------------------------
(* Landings of the hill-glide rider                                        *)

\* the tick just taken was an Airborne -> Grounded transition
Landed == trace.op = "updatePenguin" /\ trace.landed

\* the landing just taken was a perfect one: |slope| < perfectThreshold and
\* impact |vy| > 200
PerfectLanding == Abs(trace.slope) < perfectThreshold /\ trace.impact > 200000

\* C12 (amended): on every Airborne -> Grounded transition a perfect landing
\* raises combo by exactly 1 and vx by min(600, 0.8 * impact); any other
\* landing sets combo to 0 and multiplies vx by 0.75.
C12_LandingClassified ==
  Landed =>
    IF PerfectLanding
    THEN /\ penguin.combo = trace.comboIn + 1
         /\ penguin.vx = trace.vxIn + Min(600000, MulDiv(trace.impact, 8, 10))
    ELSE /\ penguin.combo = 0
         /\ penguin.vx = MulDiv(trace.vxIn, 3, 4)

\* C12 as stated: the classification above and, in addition, no landing
\* leaves combo at the value it had before the landing.
C12_LandingChangesCombo ==
  Landed => (C12_LandingClassified /\ penguin.combo # trace.comboIn)

\* a perfect landing that raised a combo of 2 to 3 and vx by the capped bonus
C12_Witness ==
  /\ Landed /\ PerfectLanding
  /\ trace.comboIn = 2 /\ penguin.combo = 3
  /\ penguin.vx = trace.vxIn + 600000
-----------------------------------------------------------------------------
(* The stuck-run watchdog of the hill-glide program                        *)

\* the condition under which a firing of the watchdog ends the run
Stuck == state = "playing" /\ penguin.vx < 10000 /\ penguin.onGround

\* C13: a watchdog firing that finds the penguin stuck (playing, grounded,
\* vx below the threshold) makes the state gameover; endRun runs at most once
\* per run; a firing outside a run changes no state and persists nothing.
C13_EndsRunOnce ==
  [][/\ variant = "hill" => hist'.ends <= 1
     /\ trace'.op = "watchdog" =>
          /\ Stuck => (state' = "gameover" /\ trace'.ended)
          /\ state # "playing" =>
               (~trace'.ended /\ hist'.ends = hist.ends /\
                UNCHANGED << state, bestScore, storage, penguin, terrain, cameraX,
                             distance, score, page >>)]_vars

\* the watchdog fired again after it had ended the run, before any resetGame
C13_Witness ==
  /\ variant = "hill" /\ state = "gameover"
  /\ trace.op = "watchdog" /\ ~trace.ended
  /\ hist.ends = 1 /\ hist.runs > 0

\* C14: a firing of the watchdog ends the run only after a stall that lasted
\* the whole 1.5 s interval before it. Firings are 1.5 s apart, so the run has
\* lasted a whole interval at a firing only if an earlier firing fell into the
\* same run: the first firing after resetGame must not end the run.
C14_EndsOnlySustainedStall ==
  [][(trace'.op = "watchdog" /\ trace'.ended) => hist.fired >= 1]_vars
-----------------------------------------------------------------------------
(* checkCollisions of the surf variants, called on chosen positions        *)

\* the rider's height above (negative) or below the pose in which the bottom
\* of its box touches the top of the collision box, in 1/1000 px
RiderLifts == {-50000, 0, 1000}

\* overlap of the rider's box over the nearer vertical edge of the collision
\* box, in 1/1000 px: none (far away), touching, one pixel
RiderOverlaps == {-200000, 0, 1000}

\* the collision box of obstacle o on the screen: the obstacle's box, shrunk
\* to 90 % about its bottom centre in src/game.js
ObstacleBox(o, camX, fc, et) ==
  LET ow == IF variant = "docs" THEN o.width ELSE (o.width * 9) \div 10
      oh == IF variant = "docs" THEN o.height ELSE (o.height * 9) \div 10
      x0 == (o.worldX - camX) + (IF variant = "docs" THEN 0 ELSE (o.width - ow) \div 2)
      y1 == getWaveY(o.worldX, fc, et)
  IN  [x0 |-> x0, x1 |-> x0 + ow, y0 |-> y1 - oh, y1 |-> y1]

\* the rider's box: centred on (surfer.screenX, y), size width x height
RiderBox(y) ==
  [x0 |-> surferScreenX - surferWidth \div 2, x1 |-> surferScreenX + surferWidth \div 2,
   y0 |-> y - surferHeight \div 2, y1 |-> y + surferHeight \div 2]

\* the call of checkCollisions at the end of update()
CheckCollisions ==
  /\ IsSurf
  /\ state = "playing"
  /\ trace.op = "load"
  /\ IF checkCollisions(obstacles, surfer.y, cameraX, clock.frameCount, clock.elapsedTime)
     THEN gameOver(score)
     ELSE UNCHANGED << state, bestScore, storage >>
  /\ trace' = [NoTick("checkCollisions") EXCEPT
                 !.prevScore = score,
                 !.tested = Tested(obstacles, surfer.y, cameraX, clock.frameCount,
                                   clock.elapsedTime)]
  /\ UNCHANGED << variant, page, world, surfer, obstacles, nextObstacleWorldX, cameraX,
                  distance, score, input, viewport, clock, hist >>
  /\ UNCHANGED << hillOnly, dropOnly >>
  /\ UNCHANGED leaderboard

\* a playing state of a surf variant: two spawned obstacles, the rider placed
\* relative to one of them (far, touching, overlapping; in front or behind)
CollideInit ==
  /\ variant \in {"surf", "docs"}
  /\ page = "live"
  /\ state = "playing"
  /\ penguin = [x |-> 0]
  /\ terrain = [segments |-> << >>]
  /\ timers = [spawnTimer |-> 0]
  /\ input = [held |-> FALSE]
  /\ viewport = [width |-> CanvasWidth, height |-> CanvasHeight]
  /\ hist = [runs |-> 1]
  /\ world = [speed |-> baseSpeed]
  /\ clock = [lastTime |-> FirstStamp, elapsedTime |-> 0, frameCount |-> 1, sum |-> 0,
              index |-> 1, accumulator |-> 0]
  /\ \E st \in SpawnTimes([obs |-> << >>, next |-> 700000], 2) :
       /\ obstacles = st.obs
       /\ nextObstacleWorldX = st.next
  /\ \E k \in 1..Len(obstacles), lift \in RiderLifts, over \in RiderOverlaps,
        front \in BOOLEAN :
       LET box == ObstacleBox(obstacles[k], 0, clock.frameCount, clock.elapsedTime)
           \* o.worldX - surfer.worldX when the boxes touch on that side
           touch == IF front THEN surferWidth \div 2 - (box.x0 - obstacles[k].worldX)
                    ELSE -(surferWidth \div 2) - (box.x1 - obstacles[k].worldX)
           gap == IF front THEN touch - over ELSE touch + over
           worldX == obstacles[k].worldX - gap
       IN  /\ surfer = [worldX |-> worldX, y |-> box.y0 - surferHeight \div 2 + lift,
                        vy |-> 0, grounded |-> FALSE]
           /\ cameraX = worldX - surferScreenX
           /\ distance = 50000
           /\ score = 5
  /\ bestScore = 0
  /\ storage = -1
  /\ trace = NoTick("load")
  /\ leaderboard = NoBoard

CollideNext == CheckCollisions

SpecCollide == CollideInit /\ [][CollideNext]_vars

\* two intervals share more than a point
Overlap1D(a0, a1, b0, b1) == Max(a0, b0) < Min(a1, b1)

\* the live obstacles whose collision box strictly overlaps the rider's box
\* on both axes
Colliding ==
  { i \in 1..Len(obstacles) :
      LET r == RiderBox(surfer.y)
          b == ObstacleBox(obstacles[i], cameraX, clock.frameCount, clock.elapsedTime)
      IN  Overlap1D(r.x0, r.x1, b.x0, b.x1) /\ Overlap1D(r.y0, r.y1, b.y0, b.y1) }

\* C15: checkCollisions ends the run if and only if the rider's box strictly
\* overlaps, on both axes, the collision box of some live obstacle (touching
\* boxes and boxes overlapping on one axis only do not collide), and the loop
\* stops at the first colliding obstacle in list order.
C15_CollisionIffOverlap ==
  trace.op = "checkCollisions" =>
    /\ state = "game_over" <=> Colliding # {}
    /\ Colliding # {} =>
         (\A j \in Colliding : trace.tested <= j) /\ trace.tested \in Colliding
    /\ Colliding = {} => trace.tested = Len(obstacles)

\* the run went on although the rider's box touches the first obstacle's
\* collision box along an edge
C15_Witness ==
  /\ trace.op = "checkCollisions" /\ state = "playing"
  /\ LET r == RiderBox(surfer.y)
         b == ObstacleBox(obstacles[1], cameraX, clock.frameCount, clock.elapsedTime)
     IN  r.x1 = b.x0 /\ Overlap1D(r.y0, r.y1, b.y0, b.y1)
-----------------------------------------------------------------------------
(* The grounded rider and the terrain                                      *)

\* the surf rider is grounded right after a reset or at the end of a tick
SurfGroundedNow ==
  IsSurf /\ hist.runs > 0 /\ trace.op \in {"startGame", "update"} /\ surfer.grounded

\* the surf half of C16: y = getWaveY(surfer.worldX) - height / 2 - 8
SurfPinned ==
  SurfGroundedNow =>
    surfer.y = SurfGroundY(surfer.worldX, clock.frameCount, clock.elapsedTime)

\* the hill-glide rider is grounded right after resetGame or at the end of an
\* updatePenguin tick
HillGroundedNow ==
  /\ variant \in {"hill", "updatePenguin"}
  /\ page = "live"
  /\ trace.op \in {"resetGame", "updatePenguin"}
  /\ penguin.onGround

\* the hill-glide half of C16: y = ground height at camera.x + penguin.x minus
\* penguin.height / 2 (the ground of the list terrainHeight works on next)
HillPinned ==
  HillGroundedNow =>
    \E e \in { ensureSegments(terrain.segments, terrain.seed, cameraX, viewport.width) } :
      e.outcome = "ok" =>
        penguin.y = terrainHeight(e.segments, cameraX + penguin.x).y - penguinHeight \div 2

\* C16: whenever the rider is Grounded, right after a run reset and at the end
\* of every tick (the landing tick included), its y is pinned to the terrain
\* at its current world position, in the surf variants and in hill-glide.
C16_GroundedPinned == SurfPinned /\ HillPinned
-----------------------------------------------------------------------------
(* addScore called on stored leaderboards                                  *)

\* lengths of the stored list before the call (addScore itself never leaves
\* more than 10, an edited or older store may hold more)
BoardLengths == {0, 1, 9, 10, 11, 12}

\* scores of the entry that is added
NewScores == {0, 45, 50, 200}

\* calls of addScore per behaviour
MaxAdds == 2

\* the score of the i-th stored entry: all equal, descending, ascending, mixed
StoredScore(i, shape) ==
  CASE shape = "equal" -> 50
    [] shape = "descending" -> 100 - 5 * i
    [] shape = "ascending" -> 5 * i
    [] OTHER -> (i * 37) % 60

\* stored lists of well-formed entries {name, score, ts}
StoredBoards ==
  { [i \in 1..n |-> [name |-> "old", score |-> StoredScore(i, shape), ts |-> i]] :
      n \in BoardLengths, shape \in {"equal", "descending", "ascending", "mixed"} }

\* addScore(name || default, score) with Date.now() = 100 + number of calls
AddScoreCall(sc) ==
  /\ variant \in {"drop", "hill"}
  /\ state = "gameover"
  /\ trace.op \in {"stored", "addScore"}
  /\ hist.saves < MaxAdds
  /\ \E name \in { IF variant = "drop" THEN "Surfer" ELSE "Penguin" } :
       /\ leaderboard' = addScore(name, sc, 100 + hist.saves)
       /\ hist' = [hist EXCEPT !.saves = @ + 1,
                               !.before = loadScores(leaderboard),
                               !.added = [name |-> name, score |-> sc,
                                          ts |-> 100 + hist.saves]]
  /\ trace' = NoTick("addScore")
  /\ UNCHANGED << variant, page, state, world, surfer, penguin, terrain, obstacles,
                  nextObstacleWorldX, timers, cameraX, distance, score, bestScore,
                  storage, input, viewport, clock >>

\* a finished run of a variant with a leaderboard, and a stored list
ScoresInit ==
  /\ variant \in {"drop", "hill"}
  /\ page = "live"
  /\ state = "gameover"
  /\ viewport \in Viewports
  /\ world = [speed |-> 0]
  /\ surfer = [x |-> 0]
  /\ penguin = [x |-> 0]
  /\ terrain = [segments |-> << >>]
  /\ obstacles = << >>
  /\ nextObstacleWorldX = 0
  /\ timers = [spawnTimer |-> 0]
  /\ cameraX = 0
  /\ distance = 0
  /\ score = 0
  /\ bestScore = 0
  /\ storage = -1
  /\ input = [held |-> FALSE]
  /\ clock = [lastTime |-> 0, elapsedTime |-> 0, frameCount |-> 0, sum |-> 0,
              index |-> 0, accumulator |-> 0]
  /\ \E board \in StoredBoards : leaderboard = saveScores(board)
  /\ hist = [runs |-> 1, saves |-> 0, before |-> << >>,
             added |-> [name |-> "", score |-> 0, ts |-> 0]]
  /\ trace = NoTick("stored")

ScoresNext == \E sc \in NewScores : AddScoreCall(sc)

SpecScores == ScoresInit /\ [][ScoresNext]_vars

\* the entries of a list with their multiplicities
BagOfSeq(seq) ==
  [e \in { seq[i] : i \in DOMAIN seq } |-> Cardinality({ i \in DOMAIN seq : seq[i] = e })]

\* C17: after any addScore call the persisted leaderboard has at most 10
\* entries, is sorted by score in non-increasing order, and holds exactly the
\* 10 highest-scoring entries of the previously stored list plus the new
\* entry (all of them when there are fewer than 10).
C17_LeaderboardCappedSorted ==
  trace.op = "addScore" =>
    LET after == leaderboard.entries
        all == Append(hist.before, hist.added)
        rest == BagOfSeq(all) (-) BagOfSeq(after)
    IN  /\ leaderboard.kind = "array"
        /\ Len(after) <= 10
        /\ \A i \in 1..(Len(after) - 1) : after[i].score >= after[i + 1].score
        /\ Len(after) = Min(10, Len(all))
        /\ BagOfSeq(after) \sqsubseteq BagOfSeq(all)
        /\ \A e \in BagToSet(rest) : e.score <= after[Len(after)].score

\* a call on a full, unsorted list of 11 in which the new entry took a place
\* among the ten and two stored entries were dropped
C17_Witness ==
  /\ trace.op = "addScore"
  /\ Len(hist.before) = 11
  /\ \E i \in 1..9 : leaderboard.entries[i] = hist.added
  /\ \E i \in 1..10 : hist.before[i].score < hist.before[i + 1].score
-----------------------------------------------------------------------------
(* Page load: reading the stored best score and the stored leaderboard     *)

\* the decimal digits and their values
DigitVal ==
  ("0" :> 0) @@ ("1" :> 1) @@ ("2" :> 2) @@ ("3" :> 3) @@ ("4" :> 4) @@
  ("5" :> 5) @@ ("6" :> 6) @@ ("7" :> 7) @@ ("8" :> 8) @@ ("9" :> 9)

\* the digit of a value 0..9
DigitChar == << "0", "1", "2", "3", "4", "5", "6", "7", "8", "9" >>

\* leading white space of a text removed
RECURSIVE StripLeft(_)
StripLeft(text) ==
  IF Len(text) > 0 /\ Head(text) = " " THEN StripLeft(Tail(text)) ELSE text

\* the text behind an optional sign
Unsigned(text) ==
  IF Len(text) > 0 /\ Head(text) \in {"+", "-"} THEN Tail(text) ELSE text

\* the digits at the start of a text, read as a number; NaN when there is none
RECURSIVE ScanDigits(_, _, _)
ScanDigits(text, acc, seen) ==
  IF Len(text) = 0 \/ Head(text) \notin DOMAIN DigitVal
  THEN [nan |-> ~seen, val |-> acc]
  ELSE ScanDigits(Tail(text), acc * 10 + DigitVal[Head(text)], TRUE)

\* the digits anywhere in a text, read as a number
RECURSIVE ScanAnyDigits(_, _, _)
ScanAnyDigits(text, acc, seen) ==
  IF Len(text) = 0 THEN [nan |-> ~seen, val |-> acc]
  ELSE IF Head(text) \in DOMAIN DigitVal
       THEN ScanAnyDigits(Tail(text), acc * 10 + DigitVal[Head(text)], TRUE)
       ELSE ScanAnyDigits(Tail(text), acc, seen)

\* a reader that takes every digit of the text, wherever it stands
parseIntAnywhere(text) == ScanAnyDigits(text, 0, FALSE)

\* parseInt(text, 10): white space, an optional sign, then the longest run of
\* digits; what follows the digits is ignored
parseInt(text) ==
  LET body == StripLeft(text)
      p == ScanDigits(Unsigned(body), 0, FALSE)
  IN  IF Len(body) > 0 /\ Head(body) = "-" THEN [nan |-> p.nan, val |-> 0 - p.val]
      ELSE p

\* String(n), n >= 0
RECURSIVE StringOf(_)
StringOf(n) ==
  IF n < 10 THEN << DigitChar[n + 1] >>
  ELSE StringOf(n \div 10) \o << DigitChar[(n % 10) + 1] >>

\* localStorage.getItem(key): null when the key is absent, else its text
NoItem == [present |-> FALSE, text |-> << >>]

Item(text) == [present |-> TRUE, text |-> text]

\* the truthiness of getItem's result: null and "" are falsy
Truthy(raw) == raw.present /\ Len(raw.text) > 0

\* isNaN(val) ? 0 : val
NaNToZero(p) == IF p.nan THEN 0 ELSE p.val

\* parseInt(localStorage.getItem("surfRacerBestScore") || "0", 10) || 0
SurfLoadBest(raw) == NaNToZero(parseInt(IF Truthy(raw) THEN raw.text ELSE << "0" >>))

\* loadBestScore(): raw ? parseInt(raw, 10) : 0, NaN read as 0
loadBestScore(raw) == IF Truthy(raw) THEN NaNToZero(parseInt(raw.text)) ELSE 0

\* loadBest(): parseInt(getItem(STORAGE_BEST) || "0", 10), NaN read as 0
loadBest(raw) == NaNToZero(parseInt(IF Truthy(raw) THEN raw.text ELSE << "0" >>))

\* the best score a page reads at load
LoadedBest(v, raw) ==
  CASE v \in {"surf", "docs"} -> SurfLoadBest(raw)
    [] v = "drop" -> loadBestScore(raw)
    [] OTHER -> loadBest(raw)

\* a JSON null inside a stored array
NullEntry == [null |-> TRUE]

\* renderLeaderboard(scores) reads entry.name of every entry: a TypeError on null
RenderRaises(scores) == \E i \in DOMAIN scores : scores[i] = NullEntry

\* texts under the best-score key
StoredTexts ==
  { << >>, << "a", "b", "c" >>, << "N", "a", "N" >>, << "x", "9" >>, << "-" >>,
    << "4", "0" >>, << " ", "7" >>, << "-", "5" >>, << "1", "2", "a", "b" >>,
    << "0" >> }

\* values under the leaderboard key: absent, "", text that JSON.parse rejects,
\* JSON of another kind than an array, arrays
StoredValues ==
  { NoBoard,
    [kind |-> "empty", entries |-> << >>],
    [kind |-> "unparsable", entries |-> << >>],
    [kind |-> "value", entries |-> << >>],
    saveScores(<< >>),
    saveScores(<< [name |-> "old", score |-> 30, ts |-> 1] >>),
    saveScores(<< NullEntry >>) }

\* the final scores of the first run
FirstScores == {0, 7, 50}

\* the script runs top to bottom: bestScore is read (src/game.js:93,
\* src/js/game.js:76-81, src/README.md:531-537) and, where there is a
\* leaderboard, renderLeaderboard() is called (src/js/game.js:128,
\* src/README.md:579)
LoadPage ==
  /\ page = "loading"
  /\ bestScore' = LoadedBest(variant, storage)
  /\ \E shown \in { IF variant \in {"drop", "hill"} THEN loadScores(leaderboard)
                    ELSE << >> } :
       /\ hist' = [hist EXCEPT !.shown = shown]
       /\ page' = IF RenderRaises(shown) THEN "dead" ELSE "live"
  /\ trace' = NoTick("load")
  /\ UNCHANGED << variant, state, world, surfer, penguin, terrain, obstacles,
                  nextObstacleWorldX, timers, cameraX, distance, score, storage,
                  input, viewport, clock, leaderboard >>

\* the first run ends with final score sc: gameOver / endRun store the best
FirstRunEnds(sc) ==
  /\ page = "live"
  /\ state = "menu"
  /\ state' = "gameover"
  /\ score' = sc
  /\ IF sc > bestScore
     THEN bestScore' = sc /\ storage' = Item(StringOf(sc))
     ELSE UNCHANGED << bestScore, storage >>
  /\ hist' = [hist EXCEPT !.runs = 1]
  /\ trace' = NoTick("gameOver")
  /\ UNCHANGED << variant, page, world, surfer, penguin, terrain, obstacles,
                  nextObstacleWorldX, timers, cameraX, distance, input, viewport,
                  clock, leaderboard >>

\* the Save button after the first run
FirstSave ==
  /\ page = "live"
  /\ variant \in {"drop", "hill"}
  /\ state = "gameover"
  /\ hist.saves = 0
  /\ \E name \in { IF variant = "drop" THEN "Surfer" ELSE "Penguin" } :
       leaderboard' = addScore(name, score, 100)
  /\ hist' = [hist EXCEPT !.saves = 1]
  /\ trace' = NoTick("save")
  /\ UNCHANGED << variant, page, state, world, surfer, penguin, terrain, obstacles,
                  nextObstacleWorldX, timers, cameraX, distance, score, bestScore,
                  storage, input, viewport, clock >>

\* a browser about to run the script of a variant, with what the store holds
LoadInit ==
  /\ variant \in {"surf", "docs", "drop", "hill"}
  /\ page = "loading"
  /\ state = "menu"
  /\ viewport \in Viewports
  /\ world = [speed |-> 0]
  /\ surfer = [x |-> 0]
  /\ penguin = [x |-> 0]
  /\ terrain = [segments |-> << >>]
  /\ obstacles = << >>
  /\ nextObstacleWorldX = 0
  /\ timers = [spawnTimer |-> 0]
  /\ cameraX = 0
  /\ distance = 0
  /\ score = 0
  /\ bestScore = 0
  /\ storage \in {NoItem} \cup { Item(text) : text \in StoredTexts }
  /\ leaderboard \in IF variant \in {"drop", "hill"} THEN StoredValues ELSE {NoBoard}
  /\ input = [held |-> FALSE]
  /\ clock = [lastTime |-> 0, elapsedTime |-> 0, frameCount |-> 0, sum |-> 0,
              index |-> 0, accumulator |-> 0]
  /\ hist = [runs |-> 0, saves |-> 0, shown |-> << >>, rawBest |-> storage,
             rawBoard |-> leaderboard]
  /\ trace = NoTick("stored")

LoadNext ==
  \/ LoadPage
  \/ \E sc \in FirstScores : FirstRunEnds(sc)
  \/ FirstSave

SpecLoad == LoadInit /\ [][LoadNext]_vars

\* a stored text that does not begin, after white space and a sign, with a
\* decimal digit
NonNumeric(text) ==
  ~ \E k \in 1..Len(text) :
        /\ text[k] \in DOMAIN DigitVal
        /\ \A j \in 1..(k - 1) : text[j] = " " \/ (text[j] \in {"+", "-"} /\ j = k - 1)

\* the best-score key holds nothing usable
BestMalformed(raw) == ~raw.present \/ NonNumeric(raw.text)

\* the leaderboard key holds nothing usable
BoardMalformed(stored) == stored.kind \in {"absent", "empty", "unparsable", "value"}

\* C18: malformed persisted data is treated as absence and never raises:
\* loadScores returns the empty list when the stored value is missing,
\* unparsable JSON or not an array, the best score loads as 0 when the stored
\* value is missing or non-numeric, and the game then proceeds as with an
\* empty store.
C18_MalformedAsAbsent ==
  /\ (trace.op = "load" /\ BoardMalformed(hist.rawBoard))
       => (hist.shown = << >> /\ page = "live")
  /\ (trace.op = "load" /\ BestMalformed(hist.rawBest))
       => (bestScore = 0 /\ (BoardMalformed(hist.rawBoard) => page = "live"))
  /\ (trace.op = "gameOver" /\ BestMalformed(hist.rawBest))
       => /\ bestScore = score
          /\ score > 0 => storage = Item(StringOf(score))
  /\ (trace.op = "save" /\ BoardMalformed(hist.rawBoard))
       => \E name \in {"Surfer", "Penguin"} :
            leaderboard = saveScores(<< [name |-> name, score |-> score, ts |-> 100] >>)

\* a page loaded over a leaderboard that is not JSON and a best score whose
\* text has a digit behind a letter
C18_Witness ==
  /\ trace.op = "load"
  /\ variant \in {"drop", "hill"}
  /\ hist.rawBoard.kind = "unparsable"
  /\ hist.rawBest = Item(<< "x", "9" >>)
  /\ page = "live"
-----------------------------------------------------------------------------
(* The surf camera                                                         *)

\* C19: in the surf variants cameraX = surfer.worldX - surfer.screenX holds
\* right after resetGame and at the end of every Playing tick, and no other
\* operation assigns cameraX.
C19_CameraDerived ==
  [][IsSurf =>
       IF trace'.op \in {"startGame", "update"}
       THEN cameraX' = surfer'.worldX - surferScreenX
       ELSE cameraX' = cameraX]_vars

\* a Playing tick that moved the rider and a jump that left the camera alone
C19_Witness ==
  /\ IsSurf
  /\ trace.op \in {"update", "jump"}
  /\ surfer.worldX > 0
  /\ clock.frameCount >= 3
  /\ cameraX = surfer.worldX - surferScreenX
-----------------------------------------------------------------------------
(* The dt handed to update                                                 *)

\* the largest clamp of the frame delta, 0.05 s, in ms
ClampMaxMs == MaxFrameDt \div 3

\* C20: in every variant the dt handed to the simulation update is the
\* clamped frame delta: whatever the wall-clock gap between two frame
\* callbacks, the dt passed to update never exceeds the clamp maximum (at
\* most 0.05 s).
C20_DtClamped ==
  /\ trace.op = "update" => trace.dt <= ClampMaxMs
  /\ trace.op = "update threw" => FIXED_DT <= MaxFrameDt
-----------------------------------------------------------------------------
(* The surf rider's world position                                         *)

\* C21: in the surf variants surfer.worldX never decreases during a run and
\* is set to 0 only by resetGame, which runs only from a primary action taken
\* while the state is MENU or GAME_OVER; a primary action during PLAYING
\* never restarts the run.
C21_WorldXMonotone ==
  [][IsSurf =>
       IF trace'.op = "startGame"
       THEN state \in {"menu", "game_over"} /\ surfer'.worldX = 0
       ELSE /\ surfer'.worldX >= surfer.worldX
            /\ surfer.worldX > 0 => surfer'.worldX > 0
            /\ state = "playing" => (distance' >= distance /\ score' >= score)]_vars

\* a second run started after a wipeout of a run that had scored
C21_Witness ==
  /\ IsSurf
  /\ trace.op = "startGame"
  /\ trace.prevScore > 0
  /\ hist.runs = 2
  /\ surfer.worldX = 0
  /\ state = "playing"
-----------------------------------------------------------------------------
(* The frame-indexed tables of src/game.js                                 *)

\* entries of other drift tables: no effect at all, and a table with drag
OtherDrift ==
  { [drag |-> 0, lift |-> 0, glide |-> 1000, smooth |-> 0],
    [drag |-> 500, lift |-> 200, glide |-> 900, smooth |-> 620] }

\* C22: the frame-indexed lookup tables of src/game.js are decorative only:
\* two runs fed the same dt sequence and the same inputs but different table
\* contents reach the same world.speed, surfer.worldX and score at every tick.
C22_TablesDecorative ==
  [][(variant = "surf" /\ state = "playing" /\ trace'.op = "update") =>
       \A drift \in OtherDrift :
         \E t \in { SurfTick(drift, trace'.dt, clock'.frameCount, clock'.elapsedTime) } :
           /\ t.speed = world'.speed
           /\ t.worldX = surfer'.worldX
           /\ t.score = score']_vars
-----------------------------------------------------------------------------
(* The surf spawner and the live obstacles                                 *)

\* the gap between two positions is one the spawner draws
SpawnGap(from, to) == spacingMin <= to - from /\ to - from <= spacingMax

\* C23: at the end of every Playing tick nextObstacleWorldX >=
\* surfer.worldX + 1600, the obstacles list is in strictly increasing worldX
\* order, and the gap between any two consecutively spawned obstacles lies in
\* [spacingMin, spacingMax].
C23_SpawnerFrontier ==
  (IsSurf /\ trace.op = "update") =>
    /\ nextObstacleWorldX >= surfer.worldX + 1600000
    /\ \A i \in 1..(Len(obstacles) - 1) :
         /\ obstacles[i].worldX < obstacles[i + 1].worldX
         /\ SpawnGap(obstacles[i].worldX, obstacles[i + 1].worldX)
    /\ Len(obstacles) > 0 => SpawnGap(obstacles[Len(obstacles)].worldX, nextObstacleWorldX)

\* a Playing tick that spawned behind the starter obstacles and recycled the
\* first of them, with a smallest and a larger gap in the list
C23_Witness ==
  /\ IsSurf
  /\ trace.op = "update"
  /\ Len(obstacles) >= 3
  /\ obstacles[1].worldX > 700000
  /\ \E i \in 1..(Len(obstacles) - 1) :
       obstacles[i + 1].worldX - obstacles[i].worldX = spacingMin
  /\ \E i \in 1..(Len(obstacles) - 1) :
       obstacles[i + 1].worldX - obstacles[i].worldX > spacingMin

\* the obstacles resetGame spawns
StarterObstacles == 4

\* the most obstacles between the recycling line and the spawning line, plus
\* the starters that may lie beyond the spawning line
LiveBound ==
  StarterObstacles
    + (surferScreenX + 200000 + obstacleWidth + 1600000) \div spacingMin + 1

\* C24: at the end of every Playing tick no live obstacle has
\* worldX + width <= cameraX - 200, and the length of the obstacles list
\* stays below a fixed constant for the whole run.
C24_LiveSetBounded ==
  (IsSurf /\ trace.op = "update") =>
    /\ \A i \in 1..Len(obstacles) :
         /\ obstacles[i].worldX + obstacles[i].width > cameraX - 200000
         /\ obstacles[i].worldX < nextObstacleWorldX
    /\ Len(obstacles) <= LiveBound
    /\ Cardinality({ i \in 1..Len(obstacles) :
                       obstacles[i].worldX >= surfer.worldX + 1600000 }) <= StarterObstacles

\* a Playing tick after which the first two starter obstacles are gone and
\* the camera is more than 200 beyond where the first one stood
C24_Witness ==
  /\ IsSurf
  /\ trace.op = "update"
  /\ cameraX - 200000 > 700000 + obstacleWidth
  /\ Len(obstacles) >= 1
  /\ obstacles[1].worldX >= 700000 + 2 * spacingMin
-----------------------------------------------------------------------------
(* The surf jump                                                           *)

\* C25: a primary action while the state is PLAYING and the rider is
\* Grounded makes the rider Airborne with vy = physics.jumpVelocity (-520)
\* and changes nothing else; a primary action while Airborne changes nothing
\* at all.
C25_JumpTransition ==
  [][(IsSurf /\ state = "playing" /\ trace'.op \in {"jump", "no jump", "startGame"}) =>
       /\ trace'.op # "startGame"
       /\ IF surfer.grounded
          THEN /\ trace'.op = "jump"
               /\ ~surfer'.grounded
               /\ surfer'.vy = -520000
               /\ surfer'.worldX = surfer.worldX /\ surfer'.y = surfer.y
          ELSE trace'.op = "no jump" /\ surfer' = surfer
       /\ UNCHANGED << world, distance, score, obstacles, nextObstacleWorldX, state,
                       cameraX, bestScore, storage, clock >>]_vars

\* a rider in the air on whom a primary action had no effect
C25_Witness ==
  /\ IsSurf
  /\ trace.op = "no jump"
  /\ state = "playing"
  /\ ~surfer.grounded
  /\ surfer.vy # -520000
-----------------------------------------------------------------------------
(* The hill-glide launch                                                   *)

\* C26: a Grounded penguin becomes Airborne only in a tick where the local
\* slope is below -0.2, the dive input is not held and the pre-tick forward
\* speed exceeds 120, and it then launches with vy = -max(420, 0.4 * speed);
\* while the dive input is held a grounded penguin never leaves the ground.
C26_AutoLaunch ==
  [][(penguin.onGround /\ trace'.op = "updatePenguin") =>
       /\ ~penguin'.onGround =>
            /\ trace'.slope < -200
            /\ ~input.held
            /\ penguin.vx > 120000
            /\ penguin'.vy = IF 4 * penguin.vx > 4200000 THEN -((4 * penguin.vx) \div 10)
                             ELSE -420000
       /\ input.held => penguin'.onGround]_vars

\* launches at the floor speed 420 and at 0.4 * speed
C26_Witness ==
  /\ trace.op = "updatePenguin"
  /\ ~trace.airborne
  /\ ~penguin.onGround
  /\ penguin.vy < -420000
-----------------------------------------------------------------------------
(* Landing                                                                 *)

\* a surf tick that lands: the rider was in the air before it and is on the
\* wave after it
SurfLands == IsSurf /\ trace'.op = "update" /\ ~surfer.grounded /\ surfer'.grounded

\* a hill-glide tick that lands
HillLands == trace'.op = "updatePenguin" /\ ~penguin.onGround /\ penguin'.onGround

\* C27: in every variant with an airborne state the Airborne -> Grounded
\* transition fires only in a tick where the rider is moving downward
\* (vy > 0) and its vertical position has reached or crossed the terrain
\* height at its current worldX; a rider that is still rising never lands.
C27_LandsOnlyFalling ==
  [][/\ SurfLands =>
          \E t \in { SurfTick(driftLUT[(clock'.frameCount % Len(driftLUT)) + 1],
                              trace'.dt, clock'.frameCount, clock'.elapsedTime) } :
            t.vyIn > 0 /\ t.yIn >= t.groundY
     /\ HillLands =>
          \E q \in { Flight(penguin, input.held) } :
            /\ q.vy > 0
            /\ q.y + (penguinHeight * 4) \div 10
                 >= terrainHeight(terrain'.segments, cameraX + penguin.x).y]_vars
-----------------------------------------------------------------------------
(* The fixed-step loop of the hill-glide program                           *)

\* C28: in the hill-glide loop the fixed-step physics update executes at
\* most 6 times per rendered frame, for any frame delta and any accumulator
\* value at frame start.
C28_AtMostSixSteps ==
  (variant = "hill" /\ trace.op \in {"update threw", "draw"}) =>
    /\ trace.calls <= trace.steps
    /\ trace.steps <= 6
    /\ trace.op = "draw" => trace.calls = 0

\* a frame in which the cap ended the stepping with a step or more left in
\* the accumulator
C28_Witness ==
  /\ variant = "hill"
  /\ trace.op = "draw"
  /\ trace.steps = 6
  /\ clock.accumulator >= FIXED_DT
-----------------------------------------------------------------------------
(* Ticks outside a run                                                     *)

\* a frame callback or a firing of the watchdog
TickOrWatchdog == trace'.op \in {"idle", "draw", "update", "update threw", "watchdog"}

\* C29: when the run state is not Playing, a tick changes no simulation
\* state in any variant: rider position and velocity, forward speed,
\* distance, score, obstacle list, spawn frontier / timers and the run state
\* itself are all unchanged by update, and the watchdog firing changes
\* nothing either.
C29_IdleTickChangesNothing ==
  [][(state # "playing" /\ TickOrWatchdog) =>
       /\ trace'.op \in {"idle", "draw", "watchdog"}
       /\ UNCHANGED << state, world, surfer, penguin, obstacles, nextObstacleWorldX,
                       timers, cameraX, distance, score, bestScore, storage >>]_vars

\* a frame after a wipeout that left the score of the finished run in place
C29_Witness ==
  /\ IsSurf
  /\ trace.op = "idle"
  /\ state = "game_over"
  /\ score > 0
  /\ hist.runs >= 1
-----------------------------------------------------------------------------
(* Termination of ensureSegments                                           *)

\* C30: every call of ensureSegments terminates, for any camera.x >= 0 and
\* any viewport width > 0, and on return the last segment ends at or beyond
\* camera.x + 2 * width.
C30_EnsureSegmentsTerminates ==
  variant = "hill" =>
    /\ page # "hung"
    /\ \E e \in { ensureSegments(terrain.segments, terrain.seed, cameraX, viewport.width) } :
         /\ e.outcome # "hung"
         /\ SegEnd(e.segments[Len(e.segments)]) >= cameraX + 2 * viewport.width
-----------------------------------------------------------------------------
(* The obstacle scan of the vertical-drop update(), src/js/game.js:190-213, *)
(* on a tall window part-way through a run.                                 *)

\* ticks per behaviour of the scan harness
MaxScanFrames == 2

\* window of the scan harness: obstacles spawn 144.5 px apart or more, so a
\* second obstacle is alive when one reaches the surfer only on a tall window
ScanViewport == [width |-> 120000, height |-> 400000]

\* an obstacle that has passed the surfer: kept, or removed by this tick
PassedObstacles ==
  { << >>,
    << [x |-> 40000, y |-> -30000, radius |-> 24000, type |-> "rock"] >>,
    << [x |-> 40000, y |-> -60000, radius |-> 24000, type |-> "rock"] >> }

\* the obstacle next to the surfer: overlapping, touching after a 30 ms
\* tick, or to the side
NearObstacles ==
  { [x |-> 60000, y |-> 120000, radius |-> 24000, type |-> "rock"],
    [x |-> 60000, y |-> 128334, radius |-> 24000, type |-> "rock"],
    [x |-> 40000, y |-> 200000, radius |-> 16000, type |-> "buoy"] }

\* the obstacle spawned after the near one
Followers ==
  { << >>, << [x |-> 60000, y |-> 350000, radius |-> 20000, type |-> "mine"] >> }

\* difficultyTimer (ms) and distance (1/1000) 3 s and 17.84 s into a run,
\* the second just before spawnInterval / difficultyFactor reaches 0.35 s
RunsSoFar == { [t |-> 3000, distance |-> 57000], [t |-> 17840, distance |-> 520000] }

\* keys and pointer at the start of a tick: nothing held, the left key, the
\* right key with the pointer on the right, both keys with the pointer on
\* the left, the pointer alone on the left
SteeringInputs ==
  { [left |-> FALSE, right |-> FALSE, pointerDirection |-> 0],
    [left |-> TRUE, right |-> FALSE, pointerDirection |-> 0],
    [left |-> FALSE, right |-> TRUE, pointerDirection |-> 1],
    [left |-> TRUE, right |-> TRUE, pointerDirection |-> -1],
    [left |-> FALSE, right |-> FALSE, pointerDirection |-> -1] }

ScanInit ==
  /\ variant = "drop"
  /\ page = "live"
  /\ state = "playing"
  /\ viewport = ScanViewport
  /\ world = [speed |-> 0]
  /\ penguin = [x |-> 0]
  /\ terrain = [segments |-> << >>]
  /\ nextObstacleWorldX = 0
  /\ cameraX = 0
  \* the middle, after two 30 ms ticks and a 20 ms tick to the left, the right margin
  /\ \E x \in {60000, 34400, 90000} :
       surfer = [x |-> x, y |-> viewport.height \div 5, vx |-> 0]
  /\ \E passed \in PassedObstacles, near \in NearObstacles, after \in Followers :
       obstacles = passed \o << near >> \o after
  /\ \E st \in {0, 700}, run \in RunsSoFar :
       /\ timers = [spawnTimer |-> st, spawnInterval |-> 850, difficultyTimer |-> run.t]
       /\ distance = run.distance
  /\ score = distance \div 1000
  /\ bestScore = 0
  /\ storage = -1
  /\ input \in SteeringInputs
  /\ clock = [lastTime |-> 0, elapsedTime |-> 0,
              frameCount |-> MaxDropFrames - MaxScanFrames, sum |-> 0,
              index |-> 0, accumulator |-> 0]
  /\ hist = [runs |-> 1, inputs |-> 0, saves |-> 0]
  /\ trace = NoTick("load")
  /\ leaderboard = NoBoard

ScanNext ==
  \/ \E gap \in Gaps : DropLoop(gap)
  \/ DropStart
  \/ \E w \in ResizedWidths : resizeCanvas(w)

SpecScan == ScanInit /\ [][ScanNext]_vars

\* the circles of obstacle o and of the surfer at (sx, sy) overlap
Overlaps(o, sx, sy) ==
  LET dx == (o.x - sx) \div 100
      dy == (o.y - sy) \div 100
      rSum == (o.radius + surferRadius) \div 100
  IN  dx * dx + dy * dy < rSum * rSum

\* C31: a Playing tick of the vertical-drop variant ends the run if and only
\* if some obstacle of the list (the one spawned by the tick included), moved
\* up by scrollSpeed * dt, strictly overlaps the surfer; the first such
\* obstacle is the last one moved, the later ones stay where they were
C31_FirstHitEndsRun ==
  [][ (variant = "drop" /\ trace'.op = "update") =>
        LET step == TimesDt(scrollSpeed(timers'.difficultyTimer), trace'.dt)
            scanned == IF timers'.spawnTimer = 0
                       THEN Append(obstacles, obstacles'[Len(obstacles')])
                       ELSE obstacles
            Moved(i) == [scanned[i] EXCEPT !.y = @ - step]
            hits == { i \in 1..Len(scanned) : Overlaps(Moved(i), surfer'.x, surfer'.y) }
        IN  /\ (state' = "gameover") <=> (hits # {})
            /\ hits # {} =>
                 LET f == CHOOSE i \in hits : \A j \in hits : i <= j
                     n == Len(scanned) - f
                     m == Len(obstacles')
                 IN  /\ m > n
                     /\ obstacles'[m - n] = Moved(f)
                     /\ SubSeq(obstacles', m - n + 1, m)
                          = SubSeq(scanned, f + 1, Len(scanned)) ]_vars

\* a tick ended the run on an obstacle and left its follower unmoved
C31_Witness ==
  /\ variant = "drop" /\ state = "gameover" /\ trace.op = "update"
  /\ \E i \in 1..(Len(obstacles) - 1) :
       /\ Overlaps(obstacles[i], surfer.x, surfer.y)
       /\ << obstacles[i + 1] >> \in Followers

\* C32: in the vertical-drop variant the effective spawn interval of a tick
\* is at most the one of the tick before and at least 0.35 s, a tick adds at
\* most one obstacle, and starting a run puts the interval back to 0.85 s
C32_IntervalShrinksToFloor ==
  [][ variant = "drop" =>
        LET prev == effectiveInterval(timers.spawnInterval, timers.difficultyTimer)
            cur == effectiveInterval(timers'.spawnInterval, timers'.difficultyTimer)
        IN  /\ trace'.op = "update" =>
                 /\ cur <= prev
                 /\ cur >= 350
                 /\ Len(obstacles') <= Len(obstacles) + 1
            /\ trace'.op = "startGame" =>
                 /\ timers'.spawnInterval = 850
                 /\ cur = 850 ]_vars

\* a tick that spawned an obstacle with the interval held at the minimum
C32_Witness ==
  /\ variant = "drop" /\ trace.op = "update"
  /\ (timers.spawnInterval * 1000) \div difficultyFactor(timers.difficultyTimer) < 350
  /\ timers.spawnTimer = 0
  /\ Len(obstacles) >= 2
-----------------------------------------------------------------------------
(* The frame loop and the update pipeline of the hill-glide page            *)

\* C33: in the hill-glide loop the accumulator is in [0, FIXED_DT) after
\* every frame, in every run state.
C33_AccumulatorBelowStep ==
  variant = "hill" => 0 <= clock.accumulator /\ clock.accumulator < FIXED_DT

\* C34: every fixed step executed while the state is playing runs update()
\* to its end without raising an error, and advances camera.x and distance
\* by (penguin.vx + 280) * dt.
C34_StepsRunToCompletion ==
  [][ (variant = "hill" /\ state = "playing" /\ trace'.calls > 0) =>
        /\ trace'.op # "update threw"
        /\ page' = "live"
        /\ trace'.calls = 1 =>
             /\ cameraX' - cameraX = ((penguin'.vx + 280000) * FIXED_DT) \div 3000
             /\ distance' - distance = cameraX' - cameraX ]_vars
-----------------------------------------------------------------------------
(* Leaderboard entries per run                                              *)

\* C35: a finished run contributes at most one leaderboard entry in the
\* hill-glide and vertical-drop variants: starting from an empty list, the
\* list never holds more entries than runs were started, however often the
\* save-score handler is invoked after a game over.
C35_OneEntryPerRun ==
  variant \in {"drop", "hill"} => Len(loadScores(leaderboard)) <= hist.runs
-----------------------------------------------------------------------------
(* Obstacles and the rider's travel in the surf variants                    *)

\* the box of obstacle o lies entirely to the right / to the left of the
\* rider's box on a screen with camera camX
BoxAhead(o, camX) ==
  ObstacleBox(o, camX, clock.frameCount, clock.elapsedTime).x0
    >= surferScreenX + surferWidth \div 2

BoxBehind(o, camX) ==
  ObstacleBox(o, camX, clock.frameCount, clock.elapsedTime).x1
    <= surferScreenX - surferWidth \div 2

\* C36: in the surf variants a Grounded rider does not pass through an
\* obstacle: an obstacle whose box is entirely ahead of the rider's box
\* before a tick is, after the tick, not entirely behind it unless the tick
\* ended the run with a collision.
C36_NoTunnelling ==
  [][ (IsSurf /\ state = "playing" /\ surfer.grounded /\ trace'.op = "update") =>
        \A k \in 1..Len(obstacles) :
          BoxAhead(obstacles[k], cameraX) =>
            \/ state' = "game_over"
            \/ ~BoxBehind(obstacles[k], cameraX') ]_vars

\* C37 as stated: in the surf variants distance = surfer.worldX at the end
\* of every Playing tick.
C37_DistanceIsTravel ==
  (IsSurf /\ trace.op = "update") => distance = surfer.worldX

\* C37, amended: a run starts with distance = surfer.worldX = 0; a Playing
\* tick adds world.speed * dt to distance with the speed as the tick leaves
\* it, while the rider moved with the speed before the slope or landing
\* term, so the two advances differ by at most |term| * dt (and one unit of
\* rounding); score = floor(distance / 10).
C37_DistanceFollowsFinalSpeed ==
  [][ IsSurf =>
        /\ trace'.op = "startGame" => distance' = 0 /\ surfer'.worldX = 0
        /\ trace'.op = "update" =>
             LET byDistance == distance' - distance
                 byTravel == surfer'.worldX - surfer.worldX
             IN  /\ byDistance = TimesDt(world'.speed, trace'.dt)
                 /\ Abs(byDistance - byTravel)
                      <= TimesDt(Abs(trace'.slopeTerm), trace'.dt) + 1
                 /\ score' = distance' \div 10000 ]_vars

\* a tick whose slope term made distance and travel differ
C37_Witness ==
  /\ IsSurf /\ trace.op = "update" /\ trace.slopeTerm # 0
  /\ distance # surfer.worldX
-----------------------------------------------------------------------------
(* Table lookups of src/game.js, for tables with one entry or more          *)

\* lengths of oceanDetailLUT / engineDriftLUT when the page defines them
TableLengths == 1..3

\* frameCount at a lookup (loop increments it before update and draw)
LookupFrames == 1..3

\* surfer.worldX of the frame, in 1/1000 px: the run start, a fraction of a
\* pixel, and further along the wave
LookupWorldX == {0, 1500, 300000}

\* the lookup sites: site, and the x (1/1000 px) the site adds
LookupSites ==
  { [site |-> "update", x |-> 0],
    [site |-> "physics", x |-> 0],
    [site |-> "slope", x |-> -2000], [site |-> "slope", x |-> 2000],
    [site |-> "drawBackground", x |-> 0],
    [site |-> "drawWave", x |-> 0],
    [site |-> "drawWave column", x |-> 0], [site |-> "drawWave column", x |-> 4000],
    [site |-> "drawWave column", x |-> CanvasWidth],
    [site |-> "shimmer", x |-> 0], [site |-> "shimmer", x |-> 120000] }

\* the index a site computes and the length of the table it indexes
LookupIndex(l) ==
  LET fc == clock.frameCount
      len == IF l.site = "update" THEN terrain.driftLength ELSE terrain.detailLength
      i == IF l.site \in {"update", "drawBackground"} THEN JsRem(fc, len)
           ELSE IF l.site = "drawWave" THEN JsRem(fc * 2, len)
           ELSE IF l.site = "shimmer" THEN JsRem(fc + l.x \div 1000, len)
           ELSE IF l.site = "drawWave column" THEN DetailIndex(fc, cameraX + l.x, len)
           ELSE DetailIndex(fc, surfer.worldX + l.x, len)
  IN  [op |-> "lookup", site |-> l.site, index |-> i, length |-> len]

\* a frame of a run in front of its lookups
LookupInit ==
  /\ variant = "surf"
  /\ page = "live"
  /\ state = "playing"
  /\ penguin = [x |-> 0]
  /\ \E n \in TableLengths, m \in TableLengths :
       terrain = [segments |-> << >>, detailLength |-> n, driftLength |-> m]
  /\ timers = [spawnTimer |-> 0]
  /\ input = [held |-> FALSE]
  /\ viewport = [width |-> CanvasWidth, height |-> CanvasHeight]
  /\ hist = [runs |-> 1]
  /\ world = [speed |-> baseSpeed]
  /\ \E x \in LookupWorldX :
       /\ surfer = [worldX |-> x, y |-> waveBaseY - 60000, vy |-> 0, grounded |-> TRUE]
       /\ cameraX = CameraFor(x)
       /\ distance = x
       /\ score = x \div 10000
  /\ obstacles = << >>
  /\ nextObstacleWorldX = 700000
  /\ bestScore = 0
  /\ storage = -1
  /\ \E fc \in LookupFrames :
       clock = [lastTime |-> FirstStamp, elapsedTime |-> 0, frameCount |-> fc, sum |-> 0,
                index |-> fc, accumulator |-> 0]
  /\ trace = NoTick("load")
  /\ leaderboard = NoBoard

\* one table lookup of the frame
Lookup(l) ==
  /\ trace' = LookupIndex(l)
  /\ UNCHANGED << variant, page, state, world, surfer, penguin, terrain, obstacles,
                  nextObstacleWorldX, timers, cameraX, distance, score, bestScore,
                  storage, leaderboard, input, viewport, clock, hist >>

LookupNext == \E l \in LookupSites : Lookup(l)

SpecLookup == LookupInit /\ [][LookupNext]_vars

\* C38: every lookup into detailLUT and driftLUT in src/game.js uses an
\* index i with 0 <= i < table length, for every frameCount and every
\* sampled worldX (negative ones included) and any table length >= 1.
C38_IndexInRange ==
  trace.op = "lookup" => 0 <= trace.index /\ trace.index < trace.length
-----------------------------------------------------------------------------
(* Steering of the vertical-drop variant                                    *)

\* C39 as stated: at the end of every Playing tick of the vertical-drop
\* variant 30 <= surfer.x <= width - 30, for any steering input and any
\* viewport width, and the steering direction is -1, 0 or 1.
C39_SurferInsideMargins ==
  (variant = "drop" /\ trace.op = "update") =>
    /\ 30000 <= surfer.x /\ surfer.x <= viewport.width - 30000
    /\ surfer.vx \in { d * SURFER_SPEED : d \in {-1, 0, 1} }

\* C39, amended: at the end of every Playing tick surfer.x <= width - 30,
\* and 30 <= surfer.x if the viewport is at least 60 wide; in a narrower
\* viewport surfer.x = width - 30, which is below 30. The steering direction
\* is -1, 0 or 1 for keys, pointer or both.
C39_SurferWithinRightMargin ==
  (variant = "drop" /\ trace.op = "update") =>
    /\ surfer.x <= viewport.width - 30000
    /\ viewport.width >= 60000 => 30000 <= surfer.x
    /\ viewport.width < 60000 => surfer.x = viewport.width - 30000
    /\ surfer.vx \in { d * SURFER_SPEED : d \in {-1, 0, 1} }

\* a tick that steered right with a key and the pointer both held, after a
\* resize, and stopped the surfer at the right margin
C39_Witness ==
  /\ variant = "drop" /\ trace.op = "update"
  /\ viewport.width \in ResizedWidths /\ viewport.width >= 60000
  /\ input.right /\ input.pointerDirection = 1 /\ surfer.vx = SURFER_SPEED
  /\ surfer.x = viewport.width - 30000
=============================================================================
